---- MODULE Spec2Model ----
(***************************************************************************)
(* State-machine model of sougi-finder: the LLM-response markdown parser,  *)
(* the slug resolver, the cached request handlers and the cache-clear      *)
(* scripts.  Every subsystem has its own variables and its own             *)
(* specification; a specification leaves the other subsystems idle.        *)
(***************************************************************************)
EXTENDS Integers, Sequences, FiniteSets, TLC

(***************************************************************************)
(* Bounds of the model.                                                    *)
(***************************************************************************)
MaxSections == 2
MaxLines == 3
MaxScanCalls == 7     \* SCAN calls one key-scan loop may make

\* A value JavaScript leaves undefined.
Undef == "<undefined>"

\* if (x): a string is truthy when it is defined and not empty.
Truthy(x) == x # Undef /\ x # ""

(***************************************************************************)
(* State.  One group of variables per subsystem.                           *)
(***************************************************************************)
\* parseDetailsFromMarkdown
VARIABLES
  pPc,                 \* "idle" | "section" | "lines" | "done"
  secNo,               \* number of sections taken from markdown.split('### ')
  secTitle,            \* lines[0].trim() of the current section
  secLines,            \* lines.slice(1) consumed so far in the current section
  secTrace,            \* per consumed line, the branch of the if-chain that took it
  readingReviews, readingQandA, readingOwnerMessage, readingOwnerPosts,
  currentQandA,        \* Partial<QAndA>; qLine is the line the question came from
  qanda, reviews, posts,   \* details.qanda, details.reviews, details.ownerInfo.posts
  detailsMap           \* title -> details.qanda of the sections parsed so far, in
                       \* insertion order (the other fields of details do not
                       \* interact with qanda and are left out of the map)

parseVars ==
  <<pPc, secNo, secTitle, secLines, secTrace, readingReviews, readingQandA,
    readingOwnerMessage, readingOwnerPosts, currentQandA, qanda, reviews, posts,
    detailsMap>>

\* the slug resolver
VARIABLES
  sPc,        \* "idle" | "fetch" | "done"
  sFunc,      \* the entry point called
  sText,      \* title or text
  sPid,       \* placeId, or NoPlaceId
  sRnd,       \* what Math.random gives this call
  sOutcome,   \* how the romanizer answered; "none" while it has not been asked
  sBase,      \* the romanized result the entry point works on
  sRes,       \* what the caller received
  prevCall    \* the call completed before this one

slugVars == <<sPc, sFunc, sText, sPid, sRnd, sOutcome, sBase, sRes, prevCall>>

\* the request handlers and the key-value store they cache in
VARIABLES
  kv,         \* the store: key -> value, NoValue where the key does not exist
  env,        \* which environment variables the deployment has set
  hPc,        \* "idle" | "cacheGet" | "generate" | "upstream" | "cacheSet" | "done"
  hHandler,   \* the handler serving the request in flight
  hReq,       \* the request
  hRetry,     \* retryCount
  hCalls,     \* generation calls made for this request
  hDesc,      \* description
  hLastForeign, \* containsForeignLanguage(description) of the last generation
  hBody,      \* places or place details waiting to be cached
  hStoreErr,  \* the store operations that failed during this request
  hOps,       \* the store operations this request has made: <<"get" | "set", key>>
  hRes        \* the response

handlerVars ==
  <<kv, env, hPc, hHandler, hReq, hRetry, hCalls, hDesc, hLastForeign, hBody, hStoreErr,
    hOps, hRes>>

\* the cache-clear scripts and the clear-cache endpoint, with the store they clear
VARIABLES
  cStore,      \* the keys that exist in the store
  cEnv,        \* cursorType: how the client returns cursors; adminKey: CACHE_CLEAR_KEY
  cRun,        \* "none" | "rest" | "batch" | "redis" | "endpoint"
  cPc,         \* position of the run
  cLimitGiven, \* the run was started with a --limit flag
  cLimit,      \* limit: the N of --limit=N; 0 for undefined, which the code tests alike
  cReqKey,     \* the admin key the endpoint request presents
  cPattern,    \* match pattern of the scan in progress
  cCursor,     \* cursor
  cScanCalls,  \* SCAN calls made by this run
  cKeys,       \* allKeys / keysToDelete / searchKeys ++ placeKeys
  cIdx,        \* index in cKeys of the key being deleted
  cRetries,    \* retries
  cSleep,      \* milliseconds of the last sleep before a retry; 0 before the first attempt
  cBatch,      \* batch (Redis-direct script)
  cChunk,      \* keys handed to deleteWithRetry
  cStreamEnded,\* the scan stream has delivered its last page
  cStats,      \* stats
  cListed,     \* every key the run has listed for deletion
  cGaveUp,     \* every key whose delete call the run has given up on
  cRemoved,    \* every key a delete command of the run has removed from the store
  cChecked,    \* every key an existence check after its delete call found absent
  cRes         \* the endpoint's response, or the script's exit

clearVars ==
  <<cStore, cEnv, cRun, cPc, cLimit, cReqKey, cPattern, cCursor, cScanCalls, cKeys,
    cIdx, cRetries, cSleep, cBatch, cChunk, cStreamEnded, cStats, cListed, cGaveUp,
    cRes, cLimitGiven, cRemoved, cChecked>>

\* the slug -> placeId mapping: the browser's sessionStorage and the store behind
\* /api/slug-lookup
VARIABLES
  mKv,        \* the store: key -> placeId, "" where the key does not exist
  mSession,   \* sessionStorage: slug -> placeId, "" where there is no item
  mPc,        \* "idle" | "post" | "done"
  mReq,       \* the body of the POST in flight
  mFirst,     \* slug -> the placeId of the first mapping the store took for it
  mRes        \* the response, or the value returned to the caller

mapVars == <<mKv, mSession, mPc, mReq, mFirst, mRes>>

\* the scripts that build the static region table
VARIABLES
  tPc,        \* "start" | "historical" | "built" | "filled" | "failed"
  tStations,  \* stationsData: what the station data source serves
  tRegions    \* regions.json: name -> entry, NoEntry where the name has none

tableVars == <<tPc, tStations, tRegions>>

\* a server process running a module that keeps a Kuroshiro singleton, and the
\* requests it is serving
VARIABLES
  kModule,    \* "route" (POST /api/convert-romaji) | "photo" (api/place-photo.js)
  kInstance,  \* kuroshiroInstance: "null" | "created" | "ready"
  kPromise,   \* initPromise: "null" | "pending" | "resolved" | "rejected"
  kWriter,    \* number of the request that last assigned the two; 0 for none
  kCount,     \* requests the process has taken
  kPc,        \* slot -> "idle" | "await" | "afterInit" | "initFailed" | "convert" | "done"
  kNum,       \* slot -> the number of the request in the slot
  kReadFrom,  \* slot -> the requests whose assignments this request has read
  kCalls,     \* slot -> calls of the library this request has started
  kRes        \* slot -> "none" | "400" | "romaji" | "fallback" | "500"

kuroVars ==
  <<kModule, kInstance, kPromise, kWriter, kCount, kPc, kNum, kReadFrom, kCalls, kRes>>

\* facilities whose slug is generated and saved, and the detail page resolving
\* a slug back to a placeId
VARIABLES
  rKv,        \* the store: slug:{slug} and prefix:{prefix} -> placeId, <<>> for none
  rPc,        \* "idle" | "generated" | "done"
  rFac,       \* the facility whose slug was generated, or whose slug is resolved
  rSlug,      \* the slug generated, or the slug being resolved
  rSaved,     \* the (facility, slug) pairs saveSlugPlaceIdMapping was called for
  rRes        \* what resolvePlaceId returned

resolveVars == <<rKv, rPc, rFac, rSlug, rSaved, rRes>>

\* what the actions of one subsystem leave alone
notParse == <<slugVars, handlerVars, clearVars, mapVars, tableVars, kuroVars, resolveVars>>
notSlug == <<parseVars, handlerVars, clearVars, mapVars, tableVars, kuroVars, resolveVars>>
notHandler == <<parseVars, slugVars, clearVars, mapVars, tableVars, kuroVars, resolveVars>>
notClear == <<parseVars, slugVars, handlerVars, mapVars, tableVars, kuroVars, resolveVars>>
notMap == <<parseVars, slugVars, handlerVars, clearVars, tableVars, kuroVars, resolveVars>>
notTable == <<parseVars, slugVars, handlerVars, clearVars, mapVars, kuroVars, resolveVars>>
notKuro == <<parseVars, slugVars, handlerVars, clearVars, mapVars, tableVars, resolveVars>>
notResolve ==
  <<parseVars, slugVars, handlerVars, clearVars, mapVars, tableVars, kuroVars>>

(***************************************************************************)
(* 1. parseDetailsFromMarkdown (src/app/api/search-funeral-homes/route.ts) *)
(*                                                                         *)
(* A line is its trimmed content, split into the label prefix it starts    *)
(* with (kind) and the trimmed rest (text):                                *)
(*   field      one of the four plain labels (address, phone, rating,      *)
(*              review count)                                              *)
(*   reviews, qaHeader, ownerMsg, ownerPosts   the four list labels        *)
(*   Q, A       "- **Q:**" and "- **A:**"                                  *)
(*   bullet     any other line starting with "- "                          *)
(*   other      any line not starting with "- "                            *)
(***************************************************************************)
NoInfo == "NO_INFO"   \* the placeholder the prompt asks for when a value is missing

Titles == {"", "T1", "T2"}
QTexts == {"q1", "", NoInfo}
ATexts == {"a1", ""}
LabelKinds == {"field", "reviews", "qaHeader", "ownerMsg", "ownerPosts"}
Line(k, t) == [kind |-> k, text |-> t]
Lines ==
  {Line(k, "") : k \in LabelKinds \cup {"other"}}
    \cup {Line("bullet", "b1")}
    \cup {Line("Q", t) : t \in QTexts}
    \cup {Line("A", t) : t \in ATexts}

\* trimmedLine.startsWith('- ') for a line that is none of the labels
StartsWithBullet(line) == line.kind \in {"Q", "A", "bullet"}

EmptyQandA == [question |-> Undef, answer |-> Undef, qLine |-> 0]

\* A QAndA record as pushed; sec and qLine record where its question came from.
Record(cur) ==
  [question |-> cur.question, answer |-> cur.answer, sec |-> secNo, qLine |-> cur.qLine]

PushIfQuestion(cur, list) ==
  IF Truthy(cur.question) THEN Append(list, Record(cur)) ELSE list

\* if (currentQandA.question && currentQandA.answer) details.qanda.push(currentQandA)
PushIfComplete(cur, list) ==
  IF Truthy(cur.question) /\ Truthy(cur.answer)
    THEN Append(list, Record(cur))
    ELSE list

\* The question branch: currentQandA after a "- **Q:**" line.
QuestionOf(text, lineNo) ==
  IF text # NoInfo
    THEN [question |-> text, answer |-> Undef, qLine |-> lineNo]
    ELSE EmptyQandA

\* currentQandA after the answer branch has pushed it: currentQandA = {}
AfterAnswerKept(cur) == cur
AfterAnswer(cur) == EmptyQandA

\* The guard of the answer branch.
AnswerAccepted(line) ==
  readingQandA /\ line.kind = "A" /\ Truthy(currentQandA.question)

ParseIdle ==
  /\ pPc = "idle" /\ secNo = 0 /\ secTitle = "" /\ secLines = <<>> /\ secTrace = <<>>
  /\ readingReviews = FALSE /\ readingQandA = FALSE
  /\ readingOwnerMessage = FALSE /\ readingOwnerPosts = FALSE
  /\ currentQandA = EmptyQandA
  /\ qanda = <<>> /\ reviews = <<>> /\ posts = <<>>
  /\ detailsMap = <<>>

ParseInit ==
  /\ pPc = "section" /\ secNo = 0 /\ secTitle = "" /\ secLines = <<>> /\ secTrace = <<>>
  /\ readingReviews = FALSE /\ readingQandA = FALSE
  /\ readingOwnerMessage = FALSE /\ readingOwnerPosts = FALSE
  /\ currentQandA = EmptyQandA
  /\ qanda = <<>> /\ reviews = <<>> /\ posts = <<>>
  /\ detailsMap = <<>>

\* for (const section of sections): title, fresh details and fresh flags.
StartSection ==
  /\ pPc = "section"
  /\ secNo < MaxSections
  /\ \E title \in Titles :
       /\ secTitle' = title
       /\ pPc' = IF title = "" THEN "section" ELSE "lines"   \* if (!title) continue
  /\ secNo' = secNo + 1
  /\ secLines' = <<>> /\ secTrace' = <<>>
  /\ readingReviews' = FALSE /\ readingQandA' = FALSE
  /\ readingOwnerMessage' = FALSE /\ readingOwnerPosts' = FALSE
  /\ currentQandA' = EmptyQandA
  /\ qanda' = <<>> /\ reviews' = <<>> /\ posts' = <<>>
  /\ UNCHANGED detailsMap
  /\ UNCHANGED notParse

\* One iteration of for (const line of lines.slice(1)).
ParseLine ==
  /\ pPc = "lines"
  /\ Len(secLines) < MaxLines
  /\ \E line \in Lines :
       LET n == Len(secLines) + 1
           took(branch) == secTrace' = Append(secTrace, branch)
       IN
       /\ secLines' = Append(secLines, line)
       /\ IF line.kind = "field" THEN
            /\ took("field")
            /\ readingReviews' = FALSE /\ readingQandA' = FALSE
            /\ UNCHANGED <<readingOwnerMessage, readingOwnerPosts, currentQandA,
                           qanda, reviews, posts>>
          ELSE IF line.kind = "reviews" THEN
            /\ took("reviews")
            /\ readingReviews' = TRUE /\ readingQandA' = FALSE
            /\ UNCHANGED <<readingOwnerMessage, readingOwnerPosts, currentQandA,
                           qanda, reviews, posts>>
          ELSE IF line.kind = "qaHeader" THEN
            /\ took("qaHeader")
            /\ readingReviews' = FALSE /\ readingQandA' = TRUE
            /\ readingOwnerMessage' = FALSE /\ readingOwnerPosts' = FALSE
            /\ UNCHANGED <<currentQandA, qanda, reviews, posts>>
          ELSE IF line.kind = "ownerMsg" THEN
            /\ took("ownerMsg")
            /\ readingReviews' = FALSE /\ readingQandA' = FALSE
            /\ readingOwnerMessage' = TRUE /\ readingOwnerPosts' = FALSE
            /\ UNCHANGED <<currentQandA, qanda, reviews, posts>>
          ELSE IF line.kind = "ownerPosts" THEN
            /\ took("ownerPosts")
            /\ readingReviews' = FALSE /\ readingQandA' = FALSE
            /\ readingOwnerMessage' = FALSE /\ readingOwnerPosts' = TRUE
            /\ UNCHANGED <<currentQandA, qanda, reviews, posts>>
          ELSE IF readingReviews /\ StartsWithBullet(line) THEN
            /\ took("review")
            /\ reviews' = IF line.text # NoInfo THEN Append(reviews, line.text) ELSE reviews
            /\ UNCHANGED <<readingReviews, readingQandA, readingOwnerMessage,
                           readingOwnerPosts, currentQandA, qanda, posts>>
          ELSE IF readingQandA /\ line.kind = "Q" THEN
            /\ took("Q")
            /\ qanda' = PushIfComplete(currentQandA, qanda)
            /\ currentQandA' = QuestionOf(line.text, n)
            /\ UNCHANGED <<readingReviews, readingQandA, readingOwnerMessage,
                           readingOwnerPosts, reviews, posts>>
          ELSE IF AnswerAccepted(line) THEN
            /\ took("A")
            /\ LET answered == [currentQandA EXCEPT !.answer = line.text]
               IN /\ qanda' = Append(qanda, Record(answered))
                  /\ currentQandA' = AfterAnswer(answered)
            /\ UNCHANGED <<readingReviews, readingQandA, readingOwnerMessage,
                           readingOwnerPosts, reviews, posts>>
          ELSE IF readingOwnerPosts /\ StartsWithBullet(line) THEN
            /\ took("post")
            /\ posts' = IF line.text # "" /\ line.text # NoInfo
                          THEN Append(posts, line.text) ELSE posts
            /\ UNCHANGED <<readingReviews, readingQandA, readingOwnerMessage,
                           readingOwnerPosts, currentQandA, qanda, reviews>>
          ELSE
            /\ took("ignored")
            /\ UNCHANGED <<readingReviews, readingQandA, readingOwnerMessage,
                           readingOwnerPosts, currentQandA, qanda, reviews, posts>>
  /\ UNCHANGED <<pPc, secNo, secTitle, detailsMap>>
  /\ UNCHANGED notParse

\* After the line loop: the trailing push and detailsMap.set(title, details).
EndSection ==
  /\ pPc = "lines"
  /\ LET final == PushIfComplete(currentQandA, qanda)
         details == [title |-> secTitle, sec |-> secNo, qanda |-> final]
     IN /\ qanda' = final
        /\ detailsMap' =
             IF \E i \in 1..Len(detailsMap) : detailsMap[i].title = secTitle
               THEN [i \in 1..Len(detailsMap) |->
                       IF detailsMap[i].title = secTitle THEN details ELSE detailsMap[i]]
               ELSE Append(detailsMap, details)
  /\ pPc' = "section"
  /\ UNCHANGED <<secNo, secTitle, secLines, secTrace, readingReviews, readingQandA,
                 readingOwnerMessage, readingOwnerPosts, currentQandA, reviews, posts>>
  /\ UNCHANGED notParse

\* return detailsMap
ParseReturn ==
  /\ pPc = "section"
  /\ pPc' = "done"
  /\ UNCHANGED <<secNo, secTitle, secLines, secTrace, readingReviews, readingQandA,
                 readingOwnerMessage, readingOwnerPosts, currentQandA, qanda, reviews,
                 posts, detailsMap>>
  /\ UNCHANGED notParse

(***************************************************************************)
(* 2. The slug resolver (src/app/utils/urlHelpers.ts, src/utils/            *)
(* urlHelpers.ts, src/api/place-photo.js).                                 *)
(*                                                                         *)
(* A string is a sequence of characters.  An ASCII character is itself; a  *)
(* Japanese character is written as a bracketed name: "[ka]" is the kana   *)
(* ka, "[neri]" the kanji of Nerima, "[ku]" the ward suffix.               *)
(***************************************************************************)
UpperCase == {"A", "C", "D", "E", "F", "I", "J", "N", "X", "Y"}
LowerOf ==
  [c \in UpperCase |->
     CASE c = "A" -> "a" [] c = "C" -> "c" [] c = "D" -> "d" [] c = "E" -> "e"
       [] c = "F" -> "f" [] c = "I" -> "i" [] c = "J" -> "j" [] c = "N" -> "n"
       [] c = "X" -> "x" [] c = "Y" -> "y"]

\* String.prototype.toLowerCase
ToLowerCase(s) == [i \in 1..Len(s) |-> IF s[i] \in UpperCase THEN LowerOf[s[i]] ELSE s[i]]

\* /[a-z0-9]/.test(char)
AlphaNum ==
  {"a", "b", "c", "d", "e", "f", "g", "h", "i", "j", "k", "l", "m", "n", "o", "p",
   "q", "r", "s", "t", "u", "v", "w", "x", "y", "z",
   "0", "1", "2", "3", "4", "5", "6", "7", "8", "9"}

\* s.substring(0, n)
Substring0(s, n) == SubSeq(s, 1, IF Len(s) < n THEN Len(s) ELSE n)

\* word occurs in s at position i
OccursAt(s, word, i) ==
  /\ i + Len(word) - 1 <= Len(s)
  /\ \A k \in 1..Len(word) : s[i + k - 1] = word[k]

\* s.replace(word, by): the first occurrence only
ReplaceFirst(s, word, by) ==
  IF \E i \in 1..Len(s) : OccursAt(s, word, i)
    THEN LET i == CHOOSE j \in 1..Len(s) :
                    OccursAt(s, word, j) /\ \A k \in 1..(j - 1) : ~OccursAt(s, word, k)
         IN SubSeq(s, 1, i - 1) \o by \o SubSeq(s, i + Len(word), Len(s))
    ELSE s

\* s.replace(new RegExp(word, 'g'), by): every occurrence, left to right
RECURSIVE ReplaceAll(_, _, _)
ReplaceAll(s, word, by) ==
  IF s = <<>> THEN <<>>
  ELSE IF OccursAt(s, word, 1)
    THEN by \o ReplaceAll(SubSeq(s, Len(word) + 1, Len(s)), word, by)
    ELSE <<s[1]>> \o ReplaceAll(Tail(s), word, by)

\* the characters of s that satisfy keep, in order
RECURSIVE Filter(_, _)
Filter(s, keep) ==
  IF s = <<>> THEN <<>>
  ELSE (IF s[1] \in keep THEN <<s[1]>> ELSE <<>>) \o Filter(Tail(s), keep)

\* .replace(/-+/g, '-')
RECURSIVE CollapseHyphens(_)
CollapseHyphens(s) ==
  IF Len(s) < 2 THEN s
  ELSE IF s[1] = "-" /\ s[2] = "-" THEN CollapseHyphens(Tail(s))
  ELSE <<s[1]>> \o CollapseHyphens(Tail(s))

\* .replace(/^-+|-+$/g, '')
RECURSIVE TrimHyphens(_)
TrimHyphens(s) ==
  IF s = <<>> THEN s
  ELSE IF s[1] = "-" THEN TrimHyphens(Tail(s))
  ELSE IF s[Len(s)] = "-" THEN TrimHyphens(SubSeq(s, 1, Len(s) - 1))
  ELSE s

\* .replace(/\s+/g, by)
RECURSIVE ReplaceSpaces(_, _)
ReplaceSpaces(s, by) ==
  IF s = <<>> THEN <<>>
  ELSE IF s[1] = " "
    THEN (IF Len(s) > 1 /\ s[2] = " " THEN <<>> ELSE by) \o ReplaceSpaces(Tail(s), by)
    ELSE <<s[1]>> \o ReplaceSpaces(Tail(s), by)

\* String.prototype.trim
RECURSIVE Trim(_)
Trim(s) ==
  IF s = <<>> THEN s
  ELSE IF s[1] = " " THEN Trim(Tail(s))
  ELSE IF s[Len(s)] = " " THEN Trim(SubSeq(s, 1, Len(s) - 1))
  ELSE s

\* romajiMap: the kana the model's strings use (the long mark maps to '')
Kana == {"[a]", "[ka]", "[na]", "[long]"}
RomajiMap ==
  [c \in Kana |->
     CASE c = "[a]" -> <<"a">> [] c = "[ka]" -> <<"k", "a">>
       [] c = "[na]" -> <<"n", "a">> [] c = "[long]" -> <<>>]

\* The character loop: if (romajiMap[char]) result += romajiMap[char];
\* else if (/[a-z0-9]/.test(char)) result += char;  anything else is dropped.
RECURSIVE CharLoop(_)
CharLoop(s) ==
  IF s = <<>> THEN <<>>
  ELSE (IF s[1] \in Kana /\ RomajiMap[s[1]] # <<>> THEN RomajiMap[s[1]]
        ELSE IF s[1] \in AlphaNum THEN <<s[1]>>
        ELSE <<>>) \o CharLoop(Tail(s))

\* regions.json: key -> romaji (one entry with the historical empty romaji)
RegionKeys == {<<"[neri]", "[ma]">>, <<"[sou]", "[ka]">>}
RegionsData ==
  [k \in RegionKeys |->
     IF k = <<"[neri]", "[ma]">> THEN <<"n", "e", "r", "i", "m", "a">> ELSE <<>>]

\* municipalities.json: key -> romaji
MunicipalityKeys == {<<"[naga]", "[oka]">>}
MunicipalityMap ==
  [k \in MunicipalityKeys |-> <<"n", "a", "g", "a", "o", "k", "a">>]

\* text.replace(/区$|市$|町$|村$|駅$/g, '').trim()
AdminSuffixes == {"[ku]", "[shi]", "[machi]", "[mura]", "[eki]"}
CleanedForLookup(text) ==
  Trim(IF text # <<>> /\ text[Len(text)] \in AdminSuffixes
         THEN SubSeq(text, 1, Len(text) - 1) ELSE text)

\* convertToRomajiCharLevel
ConvertToRomajiCharLevel(text) ==
  ToLowerCase(TrimHyphens(CollapseHyphens(ReplaceSpaces(CharLoop(ToLowerCase(text)), <<>>))))

\* removeWords, in the order of the array
RemoveWords ==
  <<<<"[kabu]", "[shiki]", "[kai]", "[sha]">>, <<"[to]">>, <<"[fu]">>, <<"[ken]">>,
    <<"[ku]">>, <<"[shi]">>, <<"[machi]">>, <<"[mura]">>, <<"[chou]", "[me]">>,
    <<"[ban]", "[chi]">>, <<"[gou]">>>>
RECURSIVE RemoveWordsFrom(_, _)
RemoveWordsFrom(text, i) ==
  IF i > Len(RemoveWords) THEN text
  ELSE RemoveWordsFrom(ReplaceAll(text, RemoveWords[i], <<>>), i + 1)

\* The last tier of convertToRomajiFallback: the per-character kana table.
KanaTier(text) ==
  ToLowerCase(TrimHyphens(CollapseHyphens(
    ReplaceSpaces(CharLoop(ToLowerCase(RemoveWordsFrom(text, 1))), <<"-">>))))

\* convertToRomajiFallback: the value and the tiers it consulted.
ConvertToRomajiFallback(text) ==
  LET cleaned == CleanedForLookup(text)
      entry(k) == IF RegionsData[k] = <<>> \/ Trim(RegionsData[k]) = <<>>
                    THEN [value |-> ConvertToRomajiCharLevel(k), tiers |-> <<"table", "kana">>]
                    ELSE [value |-> RegionsData[k], tiers |-> <<"table">>]
  IN IF text \in RegionKeys THEN entry(text)
     ELSE IF cleaned \in RegionKeys THEN entry(cleaned)
     ELSE IF cleaned \in MunicipalityKeys
       THEN [value |-> MunicipalityMap[cleaned], tiers |-> <<"table">>]
     ELSE IF text \in MunicipalityKeys
       THEN [value |-> MunicipalityMap[text], tiers |-> <<"table">>]
     ELSE [value |-> KanaTier(text), tiers |-> <<"table", "kana">>]

\* Kuroshiro.convert(text, {to: 'romaji'}): the raw romaji of the model's texts
SlugTexts ==
  {<<"[neri]", "[ma]", "[ku]">>,      \* a ward the region table knows
   <<"[ka]", "[na]">>,                \* kana only
   <<"[a]">>,                         \* one kana: a romaji of one character
   <<"[sou]">>,                       \* kanji only, in no table
   <<"[sou]", "[ka]">>,               \* a region entry whose romaji is empty
   <<"[dot]">>}                       \* punctuation only
KuroshiroConvert ==
  [t \in SlugTexts |->
     CASE t = <<"[neri]", "[ma]", "[ku]">> -> <<"n", "e", "r", "i", "m", "a", " ", "k", "u">>
       [] t = <<"[ka]", "[na]">> -> <<"k", "a", "n", "a">>
       [] t = <<"[a]">> -> <<"a">>
       [] t = <<"[sou]">> -> <<"s", "o", "u">>
       [] t = <<"[sou]", "[ka]">> -> <<"s", "o", "u", " ", "k", "a">>
       [] t = <<"[dot]">> -> <<"[dot]">>]

\* POST /api/convert-romaji: romaji.toLowerCase().replace(/\s+/g, '').replace(/[^a-z0-9]/g, '')
ServerClean(romaji) == Filter(ReplaceSpaces(ToLowerCase(romaji), <<>>), AlphaNum)

\* place-photo.js convertToRomaji: spaces to hyphens, strip, collapse, trim
PhotoClean(romaji) ==
  TrimHyphens(CollapseHyphens(
    Filter(ReplaceSpaces(ToLowerCase(romaji), <<"-">>), AlphaNum \cup {"-"})))

\* place-photo.js convertToRomajiFallback: municipality map, then the kana table
PhotoFallback(text) ==
  LET cleaned == Trim(IF text # <<>> /\ text[Len(text)] \in AdminSuffixes \ {"[eki]"}
                        THEN SubSeq(text, 1, Len(text) - 1) ELSE text)
  IN IF cleaned \in MunicipalityKeys
       THEN [value |-> MunicipalityMap[cleaned], tiers |-> <<"table">>]
     ELSE IF text \in MunicipalityKeys
       THEN [value |-> MunicipalityMap[text], tiers |-> <<"table">>]
     ELSE [value |-> KanaTier(text), tiers |-> <<"table", "kana">>]

\* Facility identifiers as the mapping provider issues them, with and without
\* the "places/" prefix; NoPlaceId is a call whose placeId is undefined or ''.
NoPlaceId == <<>>
PlacesPrefix == <<"p", "l", "a", "c", "e", "s", "/">>
PlaceIds ==
  {<<"C", "h", "I", "J", "N", "1", "t", "_", "t", "D">>,
   <<"C", "h", "I", "J", "N", "1", "t", "_", "X", "Y">>,
   PlacesPrefix \o <<"C", "h", "I", "J", "a", "b", "c", "d", "E", "F">>}

MinSlugLength == 3
PlaceIdSliceLength == 8
LegacyMinSlugLength == 2

\* placeId.replace('places/', '').substring(0, 8)
IdPart(placeId) == Substring0(ReplaceFirst(placeId, PlacesPrefix, <<>>), PlaceIdSliceLength)

\* generateFacilitySlugAsync: placeIdSuffix
PlaceIdSuffixRaw(placeId) == IdPart(placeId)
PlaceIdSuffix(placeId) == ToLowerCase(IdPart(placeId))

\* What a conversion gives its caller: a value or an exception, and the tiers consulted.
Returned(v, t) == [threw |-> FALSE, value |-> v, tiers |-> t]
Threw(t) == [threw |-> TRUE, value |-> <<>>, tiers |-> t]

\* convertToRomaji's catch block: return convertToRomajiFallback(text)
OnRomanizerFailureRethrow(text) == Threw(<<"romanizer">>)
OnRomanizerFailure(text) ==
  LET f == ConvertToRomajiFallback(text)
  IN Returned(f.value, <<"romanizer">> \o f.tiers)

\* The resolution order the fallback-chain description gives: table first.
ConvertToRomajiTableFirst(text, outcome) ==
  LET f == ConvertToRomajiFallback(text)
  IN IF f.tiers = <<"table">> THEN Returned(f.value, f.tiers)
     ELSE IF outcome = "ok"
       THEN Returned(ServerClean(KuroshiroConvert[text]), <<"table", "romanizer">>)
     ELSE Returned(f.value, <<"table", "romanizer", "kana">>)

\* convertToRomaji (src/app/utils/urlHelpers.ts): the romanizer over HTTP, and
\* the fallback when the response is not OK or the fetch throws.
ConvertToRomaji(text, outcome) ==
  IF outcome = "ok"
    THEN Returned(ServerClean(KuroshiroConvert[text]), <<"romanizer">>)
    ELSE OnRomanizerFailure(text)

\* convertToRomaji (src/api/place-photo.js): Kuroshiro in process.
PhotoConvertToRomaji(text, outcome) ==
  IF outcome = "ok"
    THEN Returned(PhotoClean(KuroshiroConvert[text]), <<"romanizer">>)
    ELSE LET f == PhotoFallback(text)
         IN Returned(f.value, <<"romanizer">> \o f.tiers)

\* generateFacilitySlug (src/app/utils/urlHelpers.ts), on generateSlug's result
GenerateFacilitySlug(title, placeId) ==
  LET f == ConvertToRomajiFallback(title)
  IN IF Len(f.value) < MinSlugLength /\ placeId # NoPlaceId
       THEN [base |-> f.value,
             res |-> Returned(ToLowerCase(f.value \o <<"-">> \o IdPart(placeId)),
                              f.tiers \o <<"id">>)]
       ELSE [base |-> f.value, res |-> Returned(f.value, f.tiers)]

\* generateFacilitySlugAsync (src/app/utils/urlHelpers.ts)
GenerateFacilitySlugAsync(title, placeId, outcome) ==
  LET conv == ConvertToRomaji(title, outcome)
  IN IF conv.threw
       THEN LET sync == GenerateFacilitySlug(title, placeId)
            IN [base |-> sync.base,
                res |-> Returned(sync.res.value, conv.tiers \o sync.res.tiers)]
     ELSE IF placeId = NoPlaceId
       THEN [base |-> conv.value, res |-> conv]
     ELSE IF Len(conv.value) < MinSlugLength
       THEN [base |-> conv.value,
             res |-> Returned(PlaceIdSuffix(placeId), conv.tiers \o <<"id">>)]
     ELSE [base |-> conv.value,
           res |-> Returned(conv.value \o <<"-">> \o PlaceIdSuffix(placeId),
                            conv.tiers \o <<"id">>)]

\* kanjiReadingMap of src/utils/urlHelpers.ts, in insertion order
KanjiReadingMap ==
  <<[kanji |-> <<"[neri]", "[ma]">>, romaji |-> <<"n", "e", "r", "i", "m", "a">>],
    [kanji |-> <<"[sou]">>, romaji |-> <<"s", "o">>],
    [kanji |-> <<"[ku]">>, romaji |-> <<>>],
    [kanji |-> <<"[shi]">>, romaji |-> <<>>]>>
RECURSIVE ApplyKanjiReadings(_, _)
ApplyKanjiReadings(text, i) ==
  IF i > Len(KanjiReadingMap) THEN text
  ELSE ApplyKanjiReadings(
         ReplaceAll(text, KanjiReadingMap[i].kanji, KanjiReadingMap[i].romaji), i + 1)

\* Math.random().toString(36).substring(2, 8)
RandTokens == {<<"r", "1", "x", "x", "x", "x">>, <<"r", "2", "x", "x", "x", "x">>}
FacilityPrefix == <<"f", "a", "c", "i", "l", "i", "t", "y", "-">>

\* if (!slug || slug.length < 2)
LegacyNeedsRandomWide(slug) == Len(slug) < 5
LegacyNeedsRandom(slug) == slug = <<>> \/ Len(slug) < LegacyMinSlugLength

\* generateSlug (src/utils/urlHelpers.ts)
LegacyGenerateSlug(text, rnd) ==
  LET romanized ==
        ToLowerCase(TrimHyphens(CollapseHyphens(ReplaceSpaces(
          CharLoop(ApplyKanjiReadings(Trim(ToLowerCase(text)), 1)), <<"-">>))))
  IN IF LegacyNeedsRandom(romanized)
       THEN [base |-> romanized, value |-> FacilityPrefix \o rnd,
             tiers |-> <<"table", "kana", "random">>]
       ELSE [base |-> romanized, value |-> romanized, tiers |-> <<"table", "kana">>]

\* generateFacilitySlug (src/utils/urlHelpers.ts)
LegacyGenerateFacilitySlug(title, placeId, rnd) ==
  LET g == LegacyGenerateSlug(title, rnd)
  IN IF Len(g.value) < MinSlugLength /\ placeId # NoPlaceId
       THEN [base |-> g.base,
             res |-> Returned(ToLowerCase(g.value \o <<"-">> \o IdPart(placeId)),
                              g.tiers \o <<"id">>)]
       ELSE [base |-> g.base, res |-> Returned(g.value, g.tiers)]

\* "東京都練馬区谷原2丁目3-8"
NerimaAddress ==
  <<"[tou]", "[kyou]", "[to]", "[neri]", "[ma]", "[ku]", "[tani]", "[hara]", "2",
    "[chou]", "[me]", "3", "-", "8">>
RegionAddresses == SlugTexts \cup {NerimaAddress}

\* The characters of the class [^都道府県]
Prefectures == {"[to]", "[dou]", "[fu]", "[ken]"}
\* The last character of the three patterns: [区], [市], [町村]
RegionPatterns == <<{"[ku]"}, {"[shi]"}, {"[machi]", "[mura]"}>>

\* address.match(/([^都道府県]+[x])/): the leftmost start, and from it the longest
\* run of characters outside the class that a character of `last` follows;
\* <<>> when nothing matches.
PatternMatch(address, last) ==
  LET ends(i) == {j \in (i + 1)..Len(address) :
                    /\ address[j] \in last
                    /\ \A k \in i..(j - 1) : address[k] \notin Prefectures}
      starts == {i \in 1..Len(address) : ends(i) # {}}
  IN IF starts = {} THEN <<>>
     ELSE LET i == CHOOSE x \in starts : \A y \in starts : x <= y
              j == CHOOSE x \in ends(i) : \A y \in ends(i) : x >= y
          IN SubSeq(address, i, j)
\* for (const pattern of patterns) { const match = address.match(pattern); ... }
RECURSIVE FirstMatch(_, _)
FirstMatch(address, i) ==
  IF i > Len(RegionPatterns) THEN <<>>
  ELSE IF PatternMatch(address, RegionPatterns[i]) # <<>>
    THEN PatternMatch(address, RegionPatterns[i])
  ELSE FirstMatch(address, i + 1)
ExtractRegion(address) == FirstMatch(address, 1)

\* generateRegionSlug (src/app/utils/urlHelpers.ts)
GenerateRegionSlug(address) ==
  LET m == ExtractRegion(address)
      f == ConvertToRomajiFallback(IF m # <<>> THEN m ELSE address)
  IN [base |-> f.value, res |-> Returned(f.value, f.tiers)]

\* generateRegionSlugAsync (src/app/utils/urlHelpers.ts)
GenerateRegionSlugAsync(address, outcome) ==
  LET m == ExtractRegion(address)
      conv == ConvertToRomaji(IF m # <<>> THEN m ELSE address, outcome)
      tiers == conv.tiers
  IN IF conv.threw
       THEN LET sync == GenerateRegionSlug(address)
            IN [base |-> sync.base,
                res |-> Returned(sync.res.value, tiers \o sync.res.tiers)]
     ELSE IF m # <<>> \/ conv.value # <<>>
       THEN [base |-> conv.value, res |-> Returned(conv.value, tiers)]
     ELSE LET f == ConvertToRomajiFallback(address)
          IN [base |-> f.value, res |-> Returned(f.value, tiers \o f.tiers)]

\* generateRegionSlug (src/utils/urlHelpers.ts)
LegacyGenerateRegionSlug(address, rnd) ==
  LET m == ExtractRegion(address)
      g == LegacyGenerateSlug(IF m # <<>> THEN m ELSE address, rnd)
  IN [base |-> g.base, res |-> Returned(g.value, g.tiers)]

SlugFuncs == {"facilityAsync", "facilitySync", "legacyFacility", "convert", "photoConvert"}
AsyncFuncs == {"facilityAsync", "convert", "photoConvert"}
RegionFuncs == {"regionAsync", "regionSync", "legacyRegion"}
LegacyFuncs == {"legacyFacility", "legacyRegion"}
\* How the romanizer can answer: for the HTTP romanizer a non-OK response (which
\* is also what its initialization failure gives) or a failed fetch; for the
\* in-process one a failed initialization or a failed conversion.
Outcomes(func) ==
  IF func = "photoConvert" THEN {"ok", "initFailed", "exception"}
  ELSE {"ok", "nonOk", "exception"}

NoCall == [func |-> "none"]

SlugIdle ==
  /\ sPc = "idle" /\ sFunc = "none" /\ sText = <<>> /\ sPid = NoPlaceId
  /\ sRnd = <<>> /\ sOutcome = "none" /\ sBase = <<>> /\ sRes = Returned(<<>>, <<>>)
  /\ prevCall = NoCall

SlugInit == SlugIdle

\* A component calls one of the exported entry points.
SlugCall ==
  /\ sPc = "idle"
  /\ \E func \in SlugFuncs \cup RegionFuncs, text \in RegionAddresses,
        pid \in PlaceIds \cup {NoPlaceId}, rnd \in RandTokens :
       /\ func \in SlugFuncs => text \in SlugTexts
       /\ func \in {"convert", "photoConvert"} \cup RegionFuncs => pid = NoPlaceId
       /\ func \notin LegacyFuncs => rnd = CHOOSE r \in RandTokens : TRUE
       /\ sFunc' = func /\ sText' = text /\ sPid' = pid /\ sRnd' = rnd
       /\ IF func \in AsyncFuncs \cup {"regionAsync"}
            THEN /\ sPc' = "fetch"
                 /\ UNCHANGED <<sOutcome, sBase, sRes>>
            ELSE LET r == CASE func = "facilitySync" ->
                               GenerateFacilitySlug(text, pid)
                            [] func = "legacyFacility" ->
                               LegacyGenerateFacilitySlug(text, pid, rnd)
                            [] func = "regionSync" -> GenerateRegionSlug(text)
                            [] func = "legacyRegion" ->
                               LegacyGenerateRegionSlug(text, rnd)
                 IN /\ sPc' = "done"
                    /\ sOutcome' = "none"
                    /\ sBase' = r.base
                    /\ sRes' = r.res
  /\ UNCHANGED prevCall
  /\ UNCHANGED notSlug

\* The romanizer answers (or fails) and the entry point runs to its return.
RomanizerAnswer ==
  /\ sPc = "fetch"
  /\ \E outcome \in Outcomes(sFunc) :
       LET r == CASE sFunc = "facilityAsync" ->
                       GenerateFacilitySlugAsync(sText, sPid, outcome)
                  [] sFunc = "convert" ->
                       LET c == ConvertToRomaji(sText, outcome)
                       IN [base |-> c.value, res |-> c]
                  [] sFunc = "photoConvert" ->
                       LET c == PhotoConvertToRomaji(sText, outcome)
                       IN [base |-> c.value, res |-> c]
                  [] sFunc = "regionAsync" ->
                       GenerateRegionSlugAsync(sText, outcome)
       IN /\ sOutcome' = outcome
          /\ sBase' = r.base
          /\ sRes' = r.res
  /\ sPc' = "done"
  /\ UNCHANGED <<sFunc, sText, sPid, sRnd, prevCall>>
  /\ UNCHANGED notSlug

\* The caller takes the result; the next call may start.
SlugReturn ==
  /\ sPc = "done"
  /\ prevCall' = [func |-> sFunc, text |-> sText, pid |-> sPid, outcome |-> sOutcome,
                  base |-> sBase, res |-> sRes]
  /\ sPc' = "idle"
  /\ sFunc' = "none" /\ sText' = <<>> /\ sPid' = NoPlaceId /\ sRnd' = <<>>
  /\ sOutcome' = "none" /\ sBase' = <<>> /\ sRes' = Returned(<<>>, <<>>)
  /\ UNCHANGED notSlug

SlugNext == SlugCall \/ RomanizerAnswer \/ SlugReturn

(***************************************************************************)
(* 3. Request handlers with a cache                                        *)
(*      description        src/app/api/generate-description/route.ts       *)
(*      descriptionLegacy  src/unnamed/part_006                            *)
(*      search             src/app/api/search-funeral-homes/route.ts       *)
(*      placeDetails       src/unnamed/part_004 (the caching handler)      *)
(*                                                                         *)
(* A generated text is its length in three parts: Japanese body, foreign   *)
(* characters (which sanitizeJapaneseText removes) and padding (preamble   *)
(* and repeated whitespace, which the final clean-up removes).  The        *)
(* station lookup of the description handler catches its own errors and    *)
(* only changes the prompt; it is not modelled.                            *)
(***************************************************************************)
GEN_MAX_RETRIES == 2
SanitizedMinLength == 500
FinalMinLength == 300
LegacyDescriptionMinLength == 500

Handlers == {"description", "descriptionLegacy", "search", "placeDetails"}

NoValue == [kind |-> "none"]
Text(b, f, p) == [kind |-> "text", body |-> b, foreign |-> f, pad |-> p]
Length(t) == t.body + t.foreign + t.pad
EmptyText == Text(0, 0, 0)

\* containsForeignLanguage
ContainsForeignLanguage(t) == t.foreign > 0
\* sanitizeJapaneseText
SanitizeJapaneseText(t) == Text(t.body, 0, t.pad)
\* preamble removal and the final clean-up
CleanUp(t) == Text(t.body, t.foreign, 0)

\* What one call of the generation API can give.
GeminiThrew == [kind |-> "threw", body |-> 0, foreign |-> 0, pad |-> 0]
GeminiOutcomes ==
  {GeminiThrew} \cup
  {Text(b, f, p) : b \in {0, 250, 450, 600}, f \in {0, 100}, p \in {0, 100}}

\* Requests.  A placeId is the identifier with or without the "places/" prefix;
\* <<>> is a missing one.
HPlaceIds == {<<>>, <<"ChIJ1">>, <<"places/", "ChIJ1">>}
Queries == {<<>>, <<"[sou]", "[ka]">>, <<"[sou]", " ", "[ka]">>}
Request(p, t, q, pos) == [placeId |-> p, title |-> t, query |-> q, position |-> pos]
Requests(h) ==
  CASE h \in {"description", "descriptionLegacy"} ->
         {Request(p, t, <<>>, FALSE) : p \in HPlaceIds, t \in BOOLEAN}
    [] h = "search" -> {Request(<<>>, FALSE, q, pos) : q \in Queries, pos \in BOOLEAN}
    [] h = "placeDetails" -> {Request(p, FALSE, <<>>, FALSE) : p \in HPlaceIds}

\* The placeId used as it was given.
KeepPlaceId(p) == p
\* placeId.replace(/^places\//, '') and placeId.replace('places/', '')
NormalizePlaceId(p) == IF p # <<>> /\ p[1] = "places/" THEN Tail(p) ELSE p

\* generateCacheKey
GenerateCacheKey(query) ==
  <<"search:">> \o ReplaceSpaces(Trim(ToLowerCase(query)), <<>>)

CacheKey(h, req) ==
  CASE h = "description" -> <<"description:">> \o NormalizePlaceId(req.placeId)
    [] h = "descriptionLegacy" -> <<"description:">> \o req.placeId
    [] h = "search" -> GenerateCacheKey(req.query)
    [] h = "placeDetails" -> <<"place:">> \o NormalizePlaceId(req.placeId)

StoreKeys ==
  {CacheKey(h, req) : h \in {"description", "descriptionLegacy", "placeDetails"},
                      req \in {Request(p, TRUE, <<>>, FALSE) : p \in HPlaceIds \ {<<>>}}}
    \cup {GenerateCacheKey(q) : q \in Queries \ {<<>>}}

\* Responses
NoDebug == [cacheReadError |-> FALSE, cacheWriteError |-> FALSE]
NoResponse ==
  [status |-> 0, body |-> NoValue, cached |-> FALSE, error |-> "", message |-> "",
   debug |-> NoDebug]
Ok(body, cached, debug) ==
  [status |-> 200, body |-> body, cached |-> cached, error |-> "", message |-> "",
   debug |-> debug]
Err(status, error, message) ==
  [status |-> status, body |-> NoValue, cached |-> FALSE, error |-> error,
   message |-> message, debug |-> NoDebug]
StoreErrorMessage == "store error"
GeminiErrorMessage == "generation error"
InternalError(message) == Err(500, "Internal server error", message)

\* A store operation succeeds or fails; it fails whenever the credentials are unset.
StoreOutcomes == IF env.kv THEN {"ok", "error"} ELSE {"error"}

\* if (!apiKey), never taken
ApiKeyAssumed(h) == TRUE
\* const apiKey = process.env...; if (!apiKey)
ApiKeyConfigured(h) == IF h = "placeDetails" THEN env.maps ELSE env.gemini

\* if (!placeId || !title), if (!query), if (!placeId || typeof placeId !== 'string')
ValidRequest(h, req) ==
  CASE h \in {"description", "descriptionLegacy"} -> req.placeId # <<>> /\ req.title
    [] h = "search" -> req.query # <<>>
    [] h = "placeDetails" -> req.placeId # <<>>

BadRequest(h) ==
  CASE h \in {"description", "descriptionLegacy"} ->
         Err(400, "placeId and title are required", "")
    [] h = "search" -> Err(400, "Query is required", "")
    [] h = "placeDetails" -> Err(400, "placeId is required", "")

HandlerIdle ==
  /\ hPc = "idle" /\ hHandler = "none" /\ hReq = Request(<<>>, FALSE, <<>>, FALSE)
  /\ hRetry = 0 /\ hCalls = 0 /\ hDesc = EmptyText /\ hBody = NoValue
  /\ hStoreErr = {} /\ hRes = NoResponse /\ hLastForeign = FALSE /\ hOps = {}
  /\ kv = [k \in StoreKeys |-> NoValue]
  /\ env = [gemini |-> TRUE, maps |-> TRUE, kv |-> TRUE]

\* A deployment: the store is empty and any of the environment variables may be unset.
HandlerInit ==
  /\ hPc = "idle" /\ hHandler = "none" /\ hReq = Request(<<>>, FALSE, <<>>, FALSE)
  /\ hRetry = 0 /\ hCalls = 0 /\ hDesc = EmptyText /\ hBody = NoValue
  /\ hStoreErr = {} /\ hRes = NoResponse /\ hLastForeign = FALSE /\ hOps = {}
  /\ kv = [k \in StoreKeys |-> NoValue]
  /\ env \in [gemini : BOOLEAN, maps : BOOLEAN, kv : BOOLEAN]

\* The handler continues after a cache miss (or a position search): the API key check.
AfterMiss(h) ==
  IF ~ApiKeyConfigured(h)
    THEN /\ hRes' = Err(500, "API key not configured", "")
         /\ hPc' = "done"
    ELSE /\ hRes' = NoResponse
         /\ hPc' = IF h = "description" THEN "generate" ELSE "upstream"

\* The search cache used whatever the request carries.
UsesCacheAlways(req) == TRUE
\* if (!position): a search that carries a position is not cached
UsesCache(req) == ~req.position

\* A request arrives: validation, and for a search with a position the API key check.
HRequest ==
  /\ hPc = "idle"
  /\ \E h \in Handlers :
       \E req \in Requests(h) :
         /\ hHandler' = h /\ hReq' = req
         /\ IF ~ValidRequest(h, req)
              THEN hRes' = BadRequest(h) /\ hPc' = "done"
            ELSE IF h = "search" /\ ~UsesCache(req)
              THEN AfterMiss(h)
            ELSE hRes' = NoResponse /\ hPc' = "cacheGet"
  /\ hRetry' = 0 /\ hCalls' = 0 /\ hDesc' = EmptyText /\ hBody' = NoValue
  /\ hStoreErr' = {} /\ hLastForeign' = FALSE /\ hOps' = {}
  /\ UNCHANGED <<kv, env>>
  /\ UNCHANGED notHandler

\* The cache is read (description, place details, search without position).
HCacheGet ==
  /\ hPc = "cacheGet"
  /\ \E outcome \in StoreOutcomes :
       LET key == CacheKey(hHandler, hReq)
           val == IF outcome = "ok" THEN kv[key] ELSE NoValue
       IN /\ hStoreErr' = IF outcome = "ok" THEN hStoreErr ELSE hStoreErr \cup {"get"}
          /\ hOps' = hOps \cup {<<"get", key>>}
          /\ IF outcome = "error" /\ hHandler = "descriptionLegacy"
               \* kv.get throws inside the handler's only try block
               THEN hRes' = InternalError(StoreErrorMessage) /\ hPc' = "done"
             ELSE IF val # NoValue
               THEN hRes' = Ok(val, TRUE, NoDebug) /\ hPc' = "done"
             ELSE AfterMiss(hHandler)
  /\ UNCHANGED <<kv, env, hHandler, hReq, hRetry, hCalls, hDesc, hBody, hLastForeign>>
  /\ UNCHANGED notHandler

\* else if (retryCount < MAX_RETRIES), never taken
NoRetryAfterShort(retryCount) == FALSE
\* else if (retryCount < MAX_RETRIES)
RetryAfterShort(retryCount) == retryCount < GEN_MAX_RETRIES
\* if (retryCount >= MAX_RETRIES) throw geminiError
NeverGiveUp(retryCount) == FALSE
GiveUpAfterError(retryCount) == retryCount >= GEN_MAX_RETRIES
\* while (retryCount <= MAX_RETRIES)
LoopContinues(retryCount) == retryCount <= GEN_MAX_RETRIES

\* After the loop: clean-up and on to the cache write, whatever the length.
FinalizeUnchecked(description) ==
  hDesc' = CleanUp(description) /\ hRes' = NoResponse /\ hPc' = "cacheSet"

\* After the loop: clean-up, the final length check, and on to the cache write.
Finalize(description) ==
  LET final == CleanUp(description)
  IN /\ hDesc' = final
     /\ IF Length(final) < FinalMinLength
          THEN hRes' = Err(500, "Generated description is too short", "") /\ hPc' = "done"
          ELSE hRes' = NoResponse /\ hPc' = "cacheSet"

\* The end of an iteration that did not break: the loop condition is tested again.
Continue(retryCount, description) ==
  IF LoopContinues(retryCount)
    THEN hDesc' = description /\ hRes' = NoResponse /\ hPc' = "generate"
    ELSE Finalize(description)

\* One iteration of the description handler's generation loop.
HGenerate ==
  /\ hPc = "generate"
  /\ hCalls' = hCalls + 1
  /\ \E out \in GeminiOutcomes :
       /\ hLastForeign' = IF out = GeminiThrew THEN hLastForeign
                          ELSE ContainsForeignLanguage(out)
       /\ IF out = GeminiThrew
            THEN IF GiveUpAfterError(hRetry)
                   THEN /\ hRes' = InternalError(GeminiErrorMessage) /\ hPc' = "done"
                        /\ UNCHANGED <<hRetry, hDesc>>
                   ELSE hRetry' = hRetry + 1 /\ Continue(hRetry + 1, hDesc)
          ELSE IF ContainsForeignLanguage(out)
            THEN LET sanitized == SanitizeJapaneseText(out)
                 IN IF Length(sanitized) >= SanitizedMinLength
                      THEN hRetry' = hRetry /\ Finalize(sanitized)
                    ELSE IF RetryAfterShort(hRetry)
                      THEN hRetry' = hRetry + 1 /\ Continue(hRetry + 1, out)
                    ELSE /\ hRetry' = hRetry
                         /\ Finalize(IF Length(sanitized) > 0 THEN sanitized ELSE out)
          ELSE hRetry' = hRetry /\ Finalize(out)
  /\ UNCHANGED <<kv, env, hHandler, hReq, hBody, hStoreErr, hOps>>
  /\ UNCHANGED notHandler

SearchOutcomes ==
  {[kind |-> "threw", count |-> 0], [kind |-> "places", count |-> 0],
   [kind |-> "places", count |-> 2]}
DetailsOutcomes == {[kind |-> "threw"], [kind |-> "notOK"], [kind |-> "details"]}
SearchDebug(writeFailed) ==
  [cacheReadError |-> "get" \in hStoreErr, cacheWriteError |-> writeFailed]

\* The single upstream call of the legacy description, search and place details handlers.
HUpstream ==
  /\ hPc = "upstream"
  /\ hCalls' = hCalls + 1
  /\ CASE hHandler = "descriptionLegacy" ->
            \E out \in GeminiOutcomes :
              /\ hBody' = hBody
              /\ IF out = GeminiThrew
                   THEN /\ hRes' = InternalError(GeminiErrorMessage) /\ hPc' = "done"
                        /\ hDesc' = hDesc
                 ELSE IF Length(out) < LegacyDescriptionMinLength
                   THEN /\ hRes' = Err(500, "Generated description is too short", "")
                        /\ hPc' = "done" /\ hDesc' = out
                 ELSE hRes' = NoResponse /\ hPc' = "cacheSet" /\ hDesc' = out
       [] hHandler = "search" ->
            \E out \in SearchOutcomes :
              /\ hDesc' = hDesc
              /\ IF out.kind = "threw"
                   THEN /\ hRes' = Err(500, GeminiErrorMessage, "") /\ hPc' = "done"
                        /\ hBody' = hBody
                 ELSE IF UsesCache(hReq) /\ out.count > 0
                   THEN hRes' = NoResponse /\ hPc' = "cacheSet" /\ hBody' = out
                 ELSE /\ hRes' = Ok(out, FALSE, SearchDebug(FALSE)) /\ hPc' = "done"
                      /\ hBody' = out
       [] hHandler = "placeDetails" ->
            \E out \in DetailsOutcomes :
              /\ hDesc' = hDesc
              /\ IF out.kind = "threw"
                   THEN /\ hRes' = InternalError("upstream error") /\ hPc' = "done"
                        /\ hBody' = hBody
                 ELSE IF out.kind = "notOK"
                   THEN /\ hRes' = Err(404, "Place not found or no data available", "")
                        /\ hPc' = "done" /\ hBody' = hBody
                 ELSE hRes' = NoResponse /\ hPc' = "cacheSet" /\ hBody' = out
  /\ UNCHANGED <<kv, env, hHandler, hReq, hRetry, hStoreErr, hLastForeign, hOps>>
  /\ UNCHANGED notHandler

\* The result is written to the cache and the response is sent.
HCacheSet ==
  /\ hPc = "cacheSet"
  /\ \E outcome \in StoreOutcomes :
       LET key == CacheKey(hHandler, hReq)
           value == IF hHandler \in {"description", "descriptionLegacy"}
                      THEN hDesc ELSE hBody
       IN /\ kv' = IF outcome = "ok" THEN [kv EXCEPT ![key] = value] ELSE kv
          /\ hStoreErr' = IF outcome = "ok" THEN hStoreErr ELSE hStoreErr \cup {"set"}
          /\ hOps' = hOps \cup {<<"set", key>>}
          /\ hRes' = IF outcome = "error" /\ hHandler = "descriptionLegacy"
                       \* kv.set throws inside the handler's only try block
                       THEN InternalError(StoreErrorMessage)
                     ELSE IF hHandler = "search"
                       THEN Ok(value, FALSE, SearchDebug(outcome = "error"))
                     ELSE Ok(value, FALSE, NoDebug)
  /\ hPc' = "done"
  /\ UNCHANGED <<env, hHandler, hReq, hRetry, hCalls, hDesc, hBody, hLastForeign>>
  /\ UNCHANGED notHandler

\* A search or place details entry reaches its time to live ({ ex: CACHE_TTL_SECONDS }).
KvExpire ==
  /\ \E k \in StoreKeys :
       /\ k[1] \in {"search:", "place:"}
       /\ kv[k] # NoValue
       /\ kv' = [kv EXCEPT ![k] = NoValue]
  /\ UNCHANGED <<env, hPc, hHandler, hReq, hRetry, hCalls, hDesc, hBody, hStoreErr, hRes,
                 hLastForeign, hOps>>
  /\ UNCHANGED notHandler

\* The response has gone out; the next request can be served.
HRespond ==
  /\ hPc = "done"
  /\ hPc' = "idle" /\ hHandler' = "none" /\ hReq' = Request(<<>>, FALSE, <<>>, FALSE)
  /\ hRetry' = 0 /\ hCalls' = 0 /\ hDesc' = EmptyText /\ hBody' = NoValue
  /\ hStoreErr' = {} /\ hRes' = NoResponse /\ hLastForeign' = FALSE /\ hOps' = {}
  /\ UNCHANGED <<kv, env>>
  /\ UNCHANGED notHandler

\* Between requests the deployment is replaced by one with other environment
\* variables; the store keeps what it holds.
Redeploy ==
  /\ hPc = "idle"
  /\ env' \in [gemini : BOOLEAN, maps : BOOLEAN, kv : BOOLEAN]
  /\ env' # env
  /\ UNCHANGED <<kv, hPc, hHandler, hReq, hRetry, hCalls, hDesc, hBody, hStoreErr, hRes,
                 hLastForeign, hOps>>
  /\ UNCHANGED notHandler

HandlerNext ==
  \/ HRequest \/ HCacheGet \/ HGenerate \/ HUpstream \/ HCacheSet \/ KvExpire
  \/ HRespond \/ Redeploy

(***************************************************************************)
(* 4. Cache clearing                                                       *)
(*      rest      src/unnamed/part_000 (REST script, delete and verify)    *)
(*      batch     src/scripts/clear-cache-batch.ts (pipelined deletes)     *)
(*      redis     src/scripts/build-municipality-map.ts:170-383 (direct    *)
(*                Redis connection, UNLINK with retry)                     *)
(*      endpoint  src/pages/api/clear-cache.ts                             *)
(*                                                                         *)
(* The store is the set of keys that exist.  SCAN walks the key space in   *)
(* a fixed order, ScanStep slots per call, and returns the existing keys   *)
(* of those slots that match; the cursor is the next slot, 0 at the end.   *)
(* A delete can succeed, fail, or take effect and fail on the way back.    *)
(* The REST script's batches of 10 only pace its progress output and are   *)
(* not modelled.                                                           *)
(***************************************************************************)
MAX_RETRIES == 3
VERIFY_INTERVAL == 5
REDIS_BATCH_SIZE == 1000
PIPELINE_BATCH_SIZE == 100
ScanStep == 2

KeySpace ==
  <<(<<"description:", "a">>), (<<"search:", "q">>), (<<"description:", "b">>),
    (<<"place:", "p">>), (<<"description:", "c">>)>>
ClearKeys == {KeySpace[i] : i \in DOMAIN KeySpace}
\* parseInt(limitFlag.split('=')[1], 10)
Limits == {-1, 0, 1, 2}

\* match: 'description:*'
Matches(key, pattern) == key[1] = pattern

Min(a, b) == IF a < b THEN a ELSE b
RECURSIVE Existing(_, _, _, _)
\* the keys of slots from..to that exist and match, in slot order
Existing(from, to, pattern, store) ==
  IF from > to THEN <<>>
  ELSE (IF KeySpace[from] \in store /\ Matches(KeySpace[from], pattern)
          THEN <<KeySpace[from]>> ELSE <<>>)
       \o Existing(from + 1, to, pattern, store)

\* kv.scan(cursor, {match}): [nextCursor, keys]
ScanPage(cursor, pattern, store) ==
  Existing(cursor + 1, Min(cursor + ScanStep, Len(KeySpace)), pattern, store)
NextSlot(cursor) == IF cursor + ScanStep >= Len(KeySpace) THEN 0 ELSE cursor + ScanStep
Cursor(type, value) == [type |-> type, value |-> value]
\* let cursor = 0
StartCursor == Cursor("number", 0)

\* while (cursor !== 0)
CursorIsNotNumberZero(cursor) == ~(cursor.type = "number" /\ cursor.value = 0)
\* while (cursor !== 0 && cursor !== '0')
CursorIsNotZero(cursor) == cursor.value # 0
ScanLoopContinues(run, cursor) ==
  IF run = "endpoint" THEN CursorIsNotZero(cursor) ELSE CursorIsNotNumberZero(cursor)

\* array.slice(0, n); a negative n counts from the end
Slice0(seq, n) ==
  SubSeq(seq, 1, IF n < 0 THEN (IF Len(seq) + n < 0 THEN 0 ELSE Len(seq) + n)
                 ELSE Min(n, Len(seq)))
\* array.slice(n)
SliceFrom(seq, n) == SubSeq(seq, n + 1, Len(seq))
Range(seq) == {seq[i] : i \in DOMAIN seq}

NoStats == [totalScanned |-> 0, totalDeleted |-> 0, verifiedDeleted |-> 0, failedKeys |-> <<>>]
NoExit == [kind |-> "none", status |-> 0]
Exit(code) == [kind |-> "exit", status |-> code]
Http(status) == [kind |-> "http", status |-> status]

ClearRunIdle ==
  /\ cRun = "none" /\ cPc = "idle" /\ cLimit = 0 /\ cReqKey = Undef
  /\ cPattern = "" /\ cCursor = StartCursor /\ cScanCalls = 0 /\ cKeys = <<>>
  /\ cIdx = 0 /\ cRetries = 0 /\ cSleep = 0 /\ cBatch = <<>> /\ cChunk = <<>>
  /\ cStreamEnded = FALSE /\ cStats = NoStats /\ cListed = {} /\ cGaveUp = {}
  /\ cRes = NoExit /\ cLimitGiven = FALSE /\ cRemoved = {} /\ cChecked = {}

ClearIdle ==
  /\ ClearRunIdle
  /\ cStore = {}
  /\ cEnv = [cursorType |-> "number", adminKey |-> Undef]

\* Any part of the key space may be cached; the client library returns cursors
\* as numbers or as strings; CACHE_CLEAR_KEY is set or not.
ClearInit ==
  /\ ClearRunIdle
  /\ cStore \in SUBSET ClearKeys
  /\ cEnv \in [cursorType : {"number", "string"}, adminKey : {Undef, "secret"}]

\* An operator starts one of the scripts.
ScriptStart ==
  /\ cPc = "idle"
  /\ \E run \in {"rest", "batch", "redis"}, given \in BOOLEAN, limit \in Limits :
       \* the batch script has no --limit flag
       /\ run = "batch" => ~given
       /\ ~given => limit = 0
       /\ cRun' = run /\ cLimitGiven' = given /\ cLimit' = limit
       /\ cPc' = IF run = "redis" THEN "stream" ELSE "scan"
  /\ cPattern' = "description:" /\ cCursor' = StartCursor
  /\ UNCHANGED <<cStore, cEnv, cReqKey, cScanCalls, cKeys, cIdx, cRetries, cBatch,
                 cChunk, cStreamEnded, cStats, cListed, cRes, cSleep,
                 cGaveUp, cRemoved, cChecked>>
  /\ UNCHANGED notClear

\* if (adminKey !== process.env.CACHE_CLEAR_KEY && adminKey !== 'emergency-2024')
EmergencyKey == "emergency-2024"
GatePasses(adminKey) == ~(adminKey # cEnv.adminKey /\ adminKey # EmergencyKey)

\* A request reaches the clear-cache endpoint: the admin-key gate.
EndpointRequest ==
  /\ cPc = "idle"
  /\ \E adminKey \in {Undef, "secret", "wrong", EmergencyKey} :
       /\ cReqKey' = adminKey
       /\ IF GatePasses(adminKey)
            THEN cPc' = "scan" /\ cRes' = NoExit
            ELSE cPc' = "done" /\ cRes' = Http(403)
  /\ cRun' = "endpoint" /\ cPattern' = "search:" /\ cCursor' = StartCursor
  /\ UNCHANGED <<cStore, cEnv, cLimit, cScanCalls, cKeys, cIdx, cRetries, cBatch,
                 cChunk, cStreamEnded, cStats, cListed, cSleep,
                 cGaveUp, cLimitGiven, cRemoved, cChecked>>
  /\ UNCHANGED notClear

\* A failure inside the run's try block: the scripts exit 1, the endpoint answers 500.
Fail == IF cRun = "endpoint" THEN Http(500) ELSE Exit(1)

\* One kv.scan call of a do-while scan loop, and what follows the loop when it ends.
ClearScan ==
  /\ cPc = "scan"
  /\ cScanCalls < MaxScanCalls
  /\ cScanCalls' = cScanCalls + 1
  /\ \E outcome \in {"ok", "error"} :
       IF outcome = "error"
         THEN /\ cPc' = "done" /\ cRes' = Fail
              /\ UNCHANGED <<cPattern, cCursor, cKeys, cIdx, cStats, cListed>>
         ELSE LET page == ScanPage(cCursor.value, cPattern, cStore)
                  next == Cursor(cEnv.cursorType, NextSlot(cCursor.value))
                  keys == cKeys \o page
                  stats == [cStats EXCEPT !.totalScanned = @ + Len(page)]
              IN /\ cStats' = IF cRun = "rest" THEN stats ELSE cStats
                 /\ IF ScanLoopContinues(cRun, next)
                      THEN /\ cCursor' = next /\ cKeys' = keys
                           /\ UNCHANGED <<cPc, cPattern, cIdx, cListed, cRes>>
                    ELSE IF cRun = "endpoint" /\ cPattern = "search:"
                      THEN /\ cPattern' = "place:" /\ cCursor' = StartCursor
                           /\ cKeys' = keys
                           /\ UNCHANGED <<cPc, cIdx, cListed, cRes>>
                    ELSE IF cRun # "endpoint" /\ keys = <<>>
                      \* if (allKeys.length === 0) return
                      THEN /\ cPc' = "done" /\ cRes' = Exit(0)
                           /\ cCursor' = next /\ cKeys' = keys
                           /\ UNCHANGED <<cPattern, cIdx, cListed>>
                    ELSE IF cRun = "endpoint" /\ keys = <<>>
                      \* the delete loop has nothing to do
                      THEN /\ cPc' = "done" /\ cRes' = Http(200)
                           /\ cCursor' = next /\ cKeys' = keys
                           /\ UNCHANGED <<cPattern, cIdx, cListed>>
                    ELSE LET keysToDelete == IF cRun = "rest" /\ cLimit # 0
                                               THEN Slice0(keys, cLimit) ELSE keys
                         IN /\ cKeys' = keysToDelete /\ cListed' = Range(keysToDelete)
                            /\ cIdx' = 1 /\ cCursor' = next
                            \* for (let i = 0; i < keysToDelete.length; ...)
                            /\ IF keysToDelete = <<>>
                                 THEN cPc' = "done" /\ cRes' = Exit(0)
                                 ELSE cPc' = "delete" /\ cRes' = NoExit
                            /\ UNCHANGED cPattern
  /\ UNCHANGED <<cStore, cEnv, cRun, cLimit, cReqKey, cRetries, cBatch, cChunk,
                 cStreamEnded, cSleep,
                 cGaveUp, cLimitGiven, cRemoved, cChecked>>
  /\ UNCHANGED notClear

\* What a delete command can do: succeed, fail, or take effect and then fail.
DelOutcomes == {"ok", "error", "appliedThenError"}
AfterDel(store, keys, outcome) == IF outcome = "error" THEN store ELSE store \ keys

\* if (retries < MAX_RETRIES), with no bound
CanRetryAlways(retries) == TRUE
\* if (retries < MAX_RETRIES)
CanRetry(retries) == retries < MAX_RETRIES

\* await sleep(500 * (retries + 1)) after a failed verification,
\* await sleep(1000 * (retries + 1)) after an exception
VerifyRetryDelay == 500
ErrorRetryDelay == 1000
RetryDelay(base, retries) == base * (retries + 1)

\* What kv.exists can do after the delete: answer for the store as the delete
\* left it, fail, or find the key written again by the application meanwhile.
ExistsOutcomes == {"ok", "error", "rewritten"}

\* One call of deleteKeyWithVerify (REST script) and, when it returns to main,
\* the bookkeeping of main's loop.
RestDelete ==
  /\ cPc = "delete" /\ cRun = "rest"
  /\ \E del \in DelOutcomes, ex \in ExistsOutcomes :
       LET key == cKeys[cIdx]
           deleted == IF key \in cStore THEN 1 ELSE 0
           store == IF ex = "rewritten" THEN cStore \cup {key}
                    ELSE AfterDel(cStore, {key}, del)
           verify == cStats.totalDeleted % VERIFY_INTERVAL = 0
           threw == del # "ok" \/ (verify /\ ex = "error")
           stillExists == verify /\ key \in store
           retry == (threw \/ stillExists) /\ CanRetry(cRetries)
           success == ~threw /\ ~stillExists /\ deleted = 1
           stats == IF success
                      THEN [cStats EXCEPT !.totalDeleted = @ + 1,
                                          !.verifiedDeleted = @ + 1]
                      ELSE [cStats EXCEPT !.failedKeys = Append(@, key)]
       IN /\ (del # "ok" \/ ~verify) => ex = "ok"
          /\ cStore' = store
          /\ cRemoved' = IF del # "error" THEN cRemoved \cup ({key} \cap cStore)
                         ELSE cRemoved
          /\ cChecked' = IF verify /\ ~threw /\ ~stillExists THEN cChecked \cup {key}
                         ELSE cChecked
          /\ IF retry
               THEN /\ cRetries' = cRetries + 1
                    /\ cSleep' = RetryDelay(IF threw THEN ErrorRetryDelay
                                                     ELSE VerifyRetryDelay, cRetries)
                    /\ UNCHANGED <<cIdx, cStats, cPc, cRes, cGaveUp>>
               ELSE /\ cRetries' = 0 /\ cSleep' = 0 /\ cStats' = stats
                    /\ cGaveUp' = IF threw \/ stillExists THEN cGaveUp \cup {key}
                                  ELSE cGaveUp
                    /\ cIdx' = cIdx + 1
                    /\ IF cIdx = Len(cKeys)
                         THEN cPc' = "done" /\ cRes' = Exit(0)
                         ELSE UNCHANGED <<cPc, cRes>>
  /\ UNCHANGED <<cEnv, cRun, cLimit, cReqKey, cPattern, cCursor, cScanCalls, cKeys,
                 cBatch, cChunk, cStreamEnded, cListed, cLimitGiven>>
  /\ UNCHANGED notClear

\* One pipelined batch of the batch script; a failed pipeline may have deleted
\* any part of the batch.
BatchDelete ==
  /\ cPc = "delete" /\ cRun = "batch"
  /\ LET batch == Slice0(SliceFrom(cKeys, cIdx - 1), PIPELINE_BATCH_SIZE)
     IN \E outcome \in {"ok", "error"}, applied \in SUBSET Range(batch) :
          /\ outcome = "ok" => applied = Range(batch)
          /\ cStore' = cStore \ applied
          /\ cRemoved' = cRemoved \cup (applied \cap cStore)
          /\ IF outcome = "ok"
               THEN /\ cStats' = [cStats EXCEPT !.totalDeleted = @ + Len(batch)]
                    /\ cIdx' = cIdx + PIPELINE_BATCH_SIZE
                    /\ IF cIdx + PIPELINE_BATCH_SIZE > Len(cKeys)
                         THEN cPc' = "done" /\ cRes' = Exit(0)
                         ELSE UNCHANGED <<cPc, cRes>>
               ELSE /\ cPc' = "done" /\ cRes' = Exit(1)
                    /\ UNCHANGED <<cStats, cIdx>>
  /\ UNCHANGED <<cEnv, cRun, cLimit, cReqKey, cPattern, cCursor, cScanCalls, cKeys,
                 cRetries, cBatch, cChunk, cStreamEnded, cListed, cSleep,
                 cGaveUp, cLimitGiven, cChecked>>
  /\ UNCHANGED notClear

\* One kv.del of the endpoint's delete loop; after the last one the 200.
EndpointDelete ==
  /\ cPc = "delete" /\ cRun = "endpoint"
  /\ \E del \in DelOutcomes :
       /\ cStore' = AfterDel(cStore, {cKeys[cIdx]}, del)
       /\ cRemoved' = IF del # "error" THEN cRemoved \cup ({cKeys[cIdx]} \cap cStore)
                      ELSE cRemoved
       /\ IF del # "ok"
            THEN /\ cPc' = "done" /\ cRes' = Http(500)
                 /\ UNCHANGED <<cIdx, cStats>>
            ELSE /\ cStats' = [cStats EXCEPT !.totalDeleted = @ + 1]
                 /\ cIdx' = cIdx + 1
                 /\ IF cIdx = Len(cKeys)
                      THEN cPc' = "done" /\ cRes' = Http(200)
                      ELSE UNCHANGED <<cPc, cRes>>
  /\ UNCHANGED <<cEnv, cRun, cLimit, cReqKey, cPattern, cCursor, cScanCalls, cKeys,
                 cRetries, cBatch, cChunk, cStreamEnded, cListed, cSleep,
                 cGaveUp, cLimitGiven, cChecked>>
  /\ UNCHANGED notClear

\* while (batch.length >= BATCH_SIZE ||
\*        (limit && stats.totalDeleted + batch.length >= limit))
WhileCond(batch, stats) ==
  \/ Len(batch) >= REDIS_BATCH_SIZE
  \/ cLimit # 0 /\ stats.totalDeleted + Len(batch) >= cLimit
\* if (limit && stats.totalDeleted >= limit)
LimitReached(stats) == cLimit # 0 /\ stats.totalDeleted >= cLimit
\* where the Redis-direct script goes when the inner while loop is left
AfterWhile(batch, stats, ended) ==
  IF LimitReached(stats) THEN "final"
  ELSE IF WhileCond(batch, stats) THEN "chunk"
  ELSE IF ended THEN "final" ELSE "stream"

\* for await (const keys of stream): the next page of the scan stream.
RedisPage ==
  /\ cPc = "stream" /\ cRun = "redis"
  /\ cScanCalls < MaxScanCalls
  /\ cScanCalls' = cScanCalls + 1
  /\ \E outcome \in {"ok", "error"} :
       IF outcome = "error"
         THEN /\ cPc' = "done" /\ cRes' = Exit(1)
              /\ UNCHANGED <<cCursor, cBatch, cStreamEnded, cStats>>
         ELSE LET page == ScanPage(cCursor.value, cPattern, cStore)
                  next == NextSlot(cCursor.value)
                  batch == cBatch \o page
                  stats == [cStats EXCEPT !.totalScanned = @ + Len(page)]
              IN /\ cBatch' = batch /\ cStats' = stats
                 /\ cCursor' = Cursor("string", next)
                 /\ cStreamEnded' = (next = 0)
                 /\ cPc' = IF WhileCond(batch, stats) THEN "chunk"
                           ELSE IF next = 0 THEN "final" ELSE "stream"
                 /\ cRes' = NoExit
  /\ UNCHANGED <<cStore, cEnv, cRun, cLimit, cReqKey, cPattern, cKeys, cIdx, cRetries,
                 cChunk, cListed, cSleep,
                 cGaveUp, cLimitGiven, cRemoved, cChecked>>
  /\ UNCHANGED notClear

\* One iteration of the inner while loop up to the call of deleteWithRetry.
RedisChunk ==
  /\ cPc = "chunk" /\ cRun = "redis"
  /\ LET n == IF cLimit # 0 THEN Min(REDIS_BATCH_SIZE, cLimit - cStats.totalDeleted)
                            ELSE REDIS_BATCH_SIZE
         count == IF n < 0 THEN 0 ELSE n
         keysToDelete == Slice0(cBatch, count)
         rest == SliceFrom(cBatch, Len(keysToDelete))
     IN /\ cBatch' = rest
        /\ IF keysToDelete = <<>>
             \* if (keysToDelete.length === 0) break
             THEN /\ cPc' = IF LimitReached(cStats) \/ cStreamEnded THEN "final" ELSE "stream"
                  /\ UNCHANGED <<cChunk, cListed, cRetries>>
             ELSE /\ cChunk' = keysToDelete /\ cRetries' = 0
                  /\ cListed' = cListed \cup Range(keysToDelete)
                  /\ cPc' = "unlink"
  /\ UNCHANGED <<cStore, cEnv, cRun, cLimit, cReqKey, cPattern, cCursor, cScanCalls,
                 cKeys, cIdx, cStreamEnded, cStats, cRes, cSleep,
                 cGaveUp, cLimitGiven, cRemoved, cChecked>>
  /\ UNCHANGED notClear

\* deleteWithRetry gives up: return 0
GiveUp(stats, keys) == stats

\* One redis.unlink of deleteWithRetry and, when it returns, what main does next.
RedisUnlink ==
  /\ cPc \in {"unlink", "unlinkFinal"} /\ cRun = "redis"
  /\ \E del \in DelOutcomes :
       LET keys == Range(cChunk)
           deleted == Cardinality(keys \cap cStore)
           retry == del # "ok" /\ CanRetry(cRetries)
           returned == IF del = "ok" THEN [cStats EXCEPT !.totalDeleted = @ + deleted]
                       ELSE GiveUp(cStats, cChunk)
       IN /\ cStore' = AfterDel(cStore, keys, del)
          /\ cRemoved' = IF del # "error" THEN cRemoved \cup (keys \cap cStore)
                         ELSE cRemoved
          /\ IF retry
               THEN /\ cRetries' = cRetries + 1
                    /\ cSleep' = RetryDelay(ErrorRetryDelay, cRetries)
                    /\ UNCHANGED <<cStats, cPc, cRes, cGaveUp>>
               ELSE /\ cRetries' = 0 /\ cSleep' = 0 /\ cStats' = returned
                    /\ cGaveUp' = IF del # "ok" THEN cGaveUp \cup keys ELSE cGaveUp
                    /\ IF cPc = "unlinkFinal"
                         THEN cPc' = "done" /\ cRes' = Exit(0)
                         ELSE /\ cPc' = AfterWhile(cBatch, returned, cStreamEnded)
                              /\ cRes' = NoExit
  /\ UNCHANGED <<cEnv, cRun, cLimit, cReqKey, cPattern, cCursor, cScanCalls, cKeys,
                 cIdx, cBatch, cChunk, cStreamEnded, cListed, cLimitGiven, cChecked>>
  /\ UNCHANGED notClear

\* After the stream: the keys left in batch, then the summary.
RedisFinal ==
  /\ cPc = "final" /\ cRun = "redis"
  /\ IF Len(cBatch) > 0 /\ (cLimit = 0 \/ cStats.totalDeleted < cLimit)
       THEN LET keysToDelete == IF cLimit # 0
                                  THEN Slice0(cBatch, cLimit - cStats.totalDeleted)
                                  ELSE cBatch
            IN /\ cChunk' = keysToDelete /\ cRetries' = 0
               /\ cListed' = cListed \cup Range(keysToDelete)
               /\ cPc' = "unlinkFinal" /\ cRes' = NoExit
       ELSE /\ cPc' = "done" /\ cRes' = Exit(0)
            /\ UNCHANGED <<cChunk, cRetries, cListed>>
  /\ UNCHANGED <<cStore, cEnv, cRun, cLimit, cReqKey, cPattern, cCursor, cScanCalls,
                 cKeys, cIdx, cBatch, cStreamEnded, cStats, cSleep,
                 cGaveUp, cLimitGiven, cRemoved, cChecked>>
  /\ UNCHANGED notClear

\* The run is over; another one can start on what is left in the store.
\* process.argv.slice(2) of clear-cache-specific.ts: Place IDs given directly
SpecificArgs == {<<>>, <<"a">>, <<"a", "b">>, <<"z", "a">>}

\* An operator starts clear-cache-specific.ts with Place IDs.
SpecificStart ==
  /\ cPc = "idle"
  /\ \E args \in SpecificArgs :
       LET keys == [i \in 1..Len(args) |-> <<"description:", args[i]>>]
       IN /\ cKeys' = keys /\ cListed' = Range(keys)
          \* if (args.length === 0) { usage; process.exit(0) }
          /\ IF args = <<>>
               THEN cPc' = "done" /\ cRes' = Exit(0)
               ELSE cPc' = "delete" /\ cRes' = NoExit
  /\ cRun' = "specific" /\ cIdx' = 1
  /\ UNCHANGED <<cStore, cEnv, cLimit, cReqKey, cPattern, cCursor, cScanCalls,
                 cRetries, cSleep, cBatch, cChunk, cStreamEnded, cStats, cGaveUp,
                 cLimitGiven, cRemoved, cChecked>>
  /\ UNCHANGED notClear

\* One iteration of the loop of clear-cache-specific.ts: exists, del, exists.
SpecificDelete ==
  /\ cPc = "delete" /\ cRun = "specific"
  /\ \E pre \in {"ok", "error"}, del \in DelOutcomes, post \in ExistsOutcomes :
       LET key == cKeys[cIdx]
           present == pre = "ok" /\ key \in cStore
           \* no del call after a failed or negative existence check,
           \* no second existence check after a failed del
           called == present
           verified == called /\ del = "ok"
           store == IF ~called THEN cStore
                    ELSE IF verified /\ post = "rewritten" THEN cStore \cup {key}
                    ELSE AfterDel(cStore, {key}, del)
           threw == pre = "error" \/ (called /\ del # "ok")
                    \/ (verified /\ post = "error")
           stillExists == verified /\ post # "error" /\ key \in store
           failed == threw \/ stillExists
           skipped == pre = "ok" /\ key \notin cStore
       IN /\ ~called => del = "ok"
          /\ ~verified => post = "ok"
          /\ cStore' = store
          /\ cRemoved' = IF called /\ del # "error" THEN cRemoved \cup {key}
                         ELSE cRemoved
          /\ cChecked' = IF verified /\ post = "ok" THEN cChecked \cup {key}
                         ELSE cChecked
          /\ cGaveUp' = IF failed THEN cGaveUp \cup {key} ELSE cGaveUp
          /\ cStats' = IF failed THEN [cStats EXCEPT !.failedKeys = Append(@, key)]
                       ELSE IF skipped THEN cStats
                       ELSE [cStats EXCEPT !.totalDeleted = @ + 1]
  /\ cIdx' = cIdx + 1
  /\ IF cIdx = Len(cKeys)
       THEN cPc' = "done" /\ cRes' = Exit(0)
       ELSE UNCHANGED <<cPc, cRes>>
  /\ UNCHANGED <<cEnv, cRun, cLimit, cReqKey, cPattern, cCursor, cScanCalls, cKeys,
                 cRetries, cSleep, cBatch, cChunk, cStreamEnded, cListed,
                 cLimitGiven>>
  /\ UNCHANGED notClear

ClearReset ==
  /\ cPc = "done"
  /\ cRun' = "none" /\ cPc' = "idle" /\ cLimit' = 0 /\ cReqKey' = Undef
  /\ cPattern' = "" /\ cCursor' = StartCursor /\ cScanCalls' = 0 /\ cKeys' = <<>>
  /\ cIdx' = 0 /\ cRetries' = 0 /\ cSleep' = 0 /\ cBatch' = <<>> /\ cChunk' = <<>>
  /\ cStreamEnded' = FALSE /\ cStats' = NoStats /\ cListed' = {} /\ cGaveUp' = {}
  /\ cRes' = NoExit /\ cLimitGiven' = FALSE /\ cRemoved' = {} /\ cChecked' = {}
  /\ UNCHANGED <<cStore, cEnv>>
  /\ UNCHANGED notClear

ClearNext ==
  \/ ScriptStart \/ EndpointRequest \/ ClearScan \/ RestDelete \/ BatchDelete
  \/ EndpointDelete \/ RedisPage \/ RedisChunk \/ RedisUnlink \/ RedisFinal
  \/ SpecificStart \/ SpecificDelete \/ ClearReset

(***************************************************************************)
(* 5. The slug -> placeId mapping                                          *)
(*      src/app/api/slug-lookup/route.ts (GET, POST)                       *)
(*      src/app/utils/urlHelpers.ts:495-537 (saveSlugPlaceIdMapping,       *)
(*      loadSlugPlaceIdMapping)                                            *)
(* The absent parameter, the absent item and the missing key are all the   *)
(* empty string, which the code's tests (!slug, if (placeId)) treat like   *)
(* undefined and null.                                                     *)
(***************************************************************************)
MapSlugs == {"kana", "nerima"}
MapPlaceIds == {"ChIJ1", "ChIJ2"}
MapSuffixes == {"ChIJN1t_"}
\* suffix.toLowerCase(), prefix.toLowerCase()
MapLower(str) == IF str = "ChIJN1t_" THEN "chijn1t_" ELSE str
MapPrefixes == MapSuffixes \cup {MapLower(x) : x \in MapSuffixes}

\* `slug:${slug}`, `prefix:${prefix.toLowerCase()}`
SlugKey(slug) == <<"slug:", slug>>
PrefixKey(prefix) == <<"prefix:", MapLower(prefix)>>
MapKeys == {SlugKey(x) : x \in MapSlugs} \cup {PrefixKey(x) : x \in MapPrefixes}

NoMapRequest == [slug |-> "", placeId |-> "", suffix |-> ""]
NoMapResponse == [status |-> 0, placeId |-> "", error |-> ""]
MapFound(placeId) == [status |-> 200, placeId |-> placeId, error |-> ""]
MapError(status, error) == [status |-> status, placeId |-> "", error |-> error]

MapIdle ==
  /\ mKv = [k \in MapKeys |-> ""] /\ mSession = [x \in MapSlugs |-> ""]
  /\ mPc = "idle" /\ mReq = NoMapRequest /\ mFirst = [x \in MapSlugs |-> ""]
  /\ mRes = NoMapResponse
\* An empty store and a new browser session.
MapInit == MapIdle

\* saveSlugPlaceIdMapping(slug, placeId): the sessionStorage item, then the POST.
SaveSlugPlaceIdMapping ==
  /\ mPc = "idle"
  /\ \E slug \in MapSlugs, placeId \in MapPlaceIds, storage \in {"ok", "error"} :
       IF storage = "error"
         \* setItem throws: caught, nothing is sent
         THEN mPc' = "done" /\ UNCHANGED <<mSession, mReq>>
         ELSE /\ mSession' = [mSession EXCEPT ![slug] = placeId]
              /\ mReq' = [slug |-> slug, placeId |-> placeId, suffix |-> ""]
              /\ mPc' = "post"
  /\ mRes' = NoMapResponse
  /\ UNCHANGED <<mKv, mFirst>>
  /\ UNCHANGED notMap

\* Any other client posts a mapping, with or without the suffix.
PostRequest ==
  /\ mPc = "idle"
  /\ \E slug \in MapSlugs \cup {""}, placeId \in MapPlaceIds \cup {""},
        suffix \in MapSuffixes \cup {""} :
       mReq' = [slug |-> slug, placeId |-> placeId, suffix |-> suffix]
  /\ mPc' = "post" /\ mRes' = NoMapResponse
  /\ UNCHANGED <<mKv, mSession, mFirst>>
  /\ UNCHANGED notMap

\* await kv.set(cacheKey, placeId)
KvSet(store, key, value) == [store EXCEPT ![key] = value]

\* POST /api/slug-lookup
SlugLookupPost ==
  /\ mPc = "post"
  /\ IF mReq.slug = "" \/ mReq.placeId = ""
       THEN /\ mRes' = MapError(400, "slug and placeId are required")
            /\ UNCHANGED <<mKv, mFirst>>
       ELSE \E slugSet \in {"ok", "error"}, prefixSet \in {"ok", "error"} :
              LET afterSlug == IF slugSet = "ok"
                                 THEN KvSet(mKv, SlugKey(mReq.slug), mReq.placeId)
                                 ELSE mKv
                  afterPrefix == IF mReq.suffix # "" /\ prefixSet = "ok"
                                   THEN KvSet(afterSlug, PrefixKey(mReq.suffix),
                                              mReq.placeId)
                                   ELSE afterSlug
              IN /\ mReq.suffix = "" => prefixSet = "ok"
                 /\ mKv' = afterPrefix
                 /\ mFirst' = IF slugSet = "ok" /\ mFirst[mReq.slug] = ""
                                THEN [mFirst EXCEPT ![mReq.slug] = mReq.placeId]
                                ELSE mFirst
                 /\ mRes' = MapFound(mReq.placeId)
  /\ mPc' = "done"
  /\ UNCHANGED <<mSession, mReq>>
  /\ UNCHANGED notMap

\* What GET /api/slug-lookup answers for a slug when the store can be read.
SlugLookup(store, slug) == store[SlugKey(slug)]

\* GET /api/slug-lookup?slug={slug} or ?prefix={prefix}
SlugLookupGet ==
  /\ mPc = "idle"
  /\ \E slug \in MapSlugs \cup {""}, prefix \in MapPrefixes \cup {""},
        prefixGet \in {"ok", "error"}, slugGet \in {"ok", "error"} :
       LET byPrefix == IF prefix # "" /\ prefixGet = "ok"
                         THEN mKv[PrefixKey(prefix)] ELSE ""
           bySlug == IF slug # "" /\ slugGet = "ok" THEN SlugLookup(mKv, slug) ELSE ""
       IN /\ prefix = "" => prefixGet = "ok"
          /\ (slug = "" \/ byPrefix # "") => slugGet = "ok"
          /\ mRes' = IF slug = "" /\ prefix = ""
                        THEN MapError(400, "slug or prefix parameter is required")
                      ELSE IF byPrefix # "" THEN MapFound(byPrefix)
                      ELSE IF slug = "" THEN MapError(404, "Prefix not found in cache")
                      ELSE IF bySlug # "" THEN MapFound(bySlug)
                      ELSE MapError(404, "Not found in cache")
          /\ mReq' = [slug |-> slug, placeId |-> "", suffix |-> prefix]
  /\ mPc' = "done"
  /\ UNCHANGED <<mKv, mSession, mFirst>>
  /\ UNCHANGED notMap

\* loadSlugPlaceIdMapping(slug)
LoadSlugPlaceIdMapping ==
  /\ mPc = "idle"
  /\ \E slug \in MapSlugs, storage \in {"ok", "error"} :
       /\ mRes' = IF storage = "ok" /\ mSession[slug] # ""
                    THEN MapFound(mSession[slug]) ELSE NoMapResponse
       /\ mReq' = [slug |-> slug, placeId |-> "", suffix |-> ""]
  /\ mPc' = "done"
  /\ UNCHANGED <<mKv, mSession, mFirst>>
  /\ UNCHANGED notMap

\* The caller has its answer.
MapReturn ==
  /\ mPc = "done"
  /\ mPc' = "idle" /\ mReq' = NoMapRequest /\ mRes' = NoMapResponse
  /\ UNCHANGED <<mKv, mSession, mFirst>>
  /\ UNCHANGED notMap

MapNext ==
  \/ SaveSlugPlaceIdMapping \/ PostRequest \/ SlugLookupPost \/ SlugLookupGet
  \/ LoadSlugPlaceIdMapping \/ MapReturn

(***************************************************************************)
(* 6. The scripts that build the static region table                       *)
(*      src/scripts/build-municipality-map.ts:1-169  (municipalities.json) *)
(*      src/scripts/build-station-map.ts             (regions.json)        *)
(*      src/scripts/fill-romaji-regions.ts           (the romaji backfill) *)
(* The table is built from the municipality rows and from the stations     *)
(* the data source serves; the backfill reads the table that is on disk,   *)
(* which may be one from before the build script guarded against empty     *)
(* romaji (fill-romaji-regions.ts:1-12).                                   *)
(***************************************************************************)
Nerima == <<"[neri]", "[ma]">>
NerimaKu == <<"[neri]", "[ma]", "[ku]">>
KitaNagaoka == <<"[kita]", "[naga]", "[oka]">>
StationNames == {Nerima, KitaNagaoka}

\* 3-muni.tsv: the base-ja and base-en columns
TsvRows == {[baseJa |-> NerimaKu, baseEn |-> <<"N", "e", "r", "i", "m", "a">>]}

\* baseJa.replace(/区$|市$|町$|村$/g, '').trim()
CleanedJa(baseJa) ==
  Trim(IF baseJa # <<>> /\ baseJa[Len(baseJa)] \in {"[ku]", "[shi]", "[machi]", "[mura]"}
         THEN SubSeq(baseJa, 1, Len(baseJa) - 1) ELSE baseJa)

\* parseTSV: municipalities.json as a set of <<name, romaji>> pairs
ParseTSV(rows) ==
  {<<r.baseJa, ToLowerCase(r.baseEn)>> : r \in {x \in rows : x.baseJa # <<>> /\ x.baseEn # <<>>}}
  \cup {<<CleanedJa(r.baseJa), ToLowerCase(r.baseEn)>> :
          r \in {x \in rows : x.baseJa # <<>> /\ x.baseEn # <<>>}}

TableNames == StationNames \cup {pair[1] : pair \in ParseTSV(TsvRows)}

NoEntry == [type |-> "none", romaji |-> <<>>]
Entry(type, romaji) == [type |-> type, romaji |-> romaji]

\* What the station data source can hold for a station.
NoStation == [known |-> FALSE, name_romaji |-> <<>>, code |-> <<>>]
StationRomaji == {<<>>, <<" ">>, <<"I", "k", "e">>}
StationCodes == {<<>>, <<"J", "E", ".", "I", "k", "e">>, <<"J", "E", ".">>}
StationRecords ==
  {NoStation} \cup
  {[known |-> TRUE, name_romaji |-> r, code |-> c] : r \in StationRomaji, c \in StationCodes}

\* firstStation.code.split('.'), parts[parts.length - 1]
RECURSIVE LastPart(_)
LastPart(code) ==
  IF \E i \in 1..Len(code) : code[i] = "."
    THEN LastPart(SubSeq(code, (CHOOSE i \in 1..Len(code) : code[i] = ".") + 1, Len(code)))
    ELSE code

\* convertToRomajiSimple: text.toLowerCase().replace(/[^a-z0-9]/g, '')
ConvertToRomajiSimple(text) == Filter(ToLowerCase(text), AlphaNum)
\* romaji.toLowerCase().replace(/\s+/g, '').replace(/[^a-z0-9]/g, '')
CleanRomaji(romaji) == Filter(ReplaceSpaces(ToLowerCase(romaji), <<>>), AlphaNum)

\* kuroshiro.convert(stationName, ...): a reading, text without a letter, or a throw
KuroshiroOutcomes == {"reading", "symbols", "threw"}
StationReading(name) ==
  IF name = Nerima THEN <<"N", "e", "r", "i", "m", "a">>
  ELSE <<"K", "i", "t", "a", " ", "n", "a", "g", "a", "o", "k", "a">>
\* convertToRomajiWithKuroshiro
ConvertToRomajiWithKuroshiro(name, outcome) ==
  CASE outcome = "reading" -> CleanRomaji(StationReading(name))
    [] outcome = "symbols" -> CleanRomaji(<<"[dot]">>)
    [] outcome = "threw" -> ConvertToRomajiSimple(name)

\* romaji = 'unknown'
UnknownRomaji == <<"u", "n", "k", "n", "o", "w", "n">>
\* if (romaji === '') romaji = 'unknown'
OrUnknown(romaji) == IF romaji = <<>> THEN UnknownRomaji ELSE romaji

\* build-station-map.ts main, the romaji of one station
BuiltStationRomaji(name, station, outcome) ==
  LET r1 == Trim(station.name_romaji)
      r2 == IF r1 = <<>> /\ station.code # <<>> THEN Trim(LastPart(station.code)) ELSE r1
      r3 == IF r2 = <<>> THEN ConvertToRomajiWithKuroshiro(name, outcome) ELSE r2
  IN OrUnknown(CleanRomaji(r3))

\* extractRomajiFromStationCode
ExtractRomajiFromStationCode(name, station) ==
  LET romaji == IF Trim(station.name_romaji) # <<>> THEN station.name_romaji
                ELSE IF station.code # <<>> THEN LastPart(station.code)
                ELSE ConvertToRomajiSimple(name)
  IN CleanRomaji(romaji)

\* if (!data.romaji || data.romaji.trim() === '')
EmptyRomaji(entry) == Trim(entry.romaji) = <<>>

\* fill-romaji-regions.ts main, the new romaji of one entry with an empty one
FilledRomaji(name, entry, stations) ==
  IF entry.type = "station"
    THEN IF name \in StationNames /\ stations[name].known
           THEN ExtractRomajiFromStationCode(name, stations[name])
           ELSE ConvertToRomajiSimple(name)
    ELSE ConvertToRomajiSimple(name)

\* A table from before the build script guarded against empty romaji.
HistoricalRomaji == {<<>>, <<"i", "k", "e">>}
HistoricalTables ==
  [TableNames -> {NoEntry} \cup {Entry(type, r) : type \in {"station", "municipality"},
                                                 r \in HistoricalRomaji}]

TableIdle ==
  /\ tPc = "start"
  /\ tStations = [n \in StationNames |-> NoStation]
  /\ tRegions = [n \in TableNames |-> NoEntry]
\* No table yet, or a historical one; the data source serves any station records.
TableInit ==
  /\ tStations \in [StationNames -> StationRecords]
  /\ \/ tPc = "start" /\ tRegions = [n \in TableNames |-> NoEntry]
     \/ tPc = "historical" /\ tRegions \in HistoricalTables

\* build-station-map.ts main: the municipalities, then the stations over them.
BuildStationMap ==
  /\ tPc \in {"start", "historical"}
  /\ \E fetch \in {"ok", "error"}, outcome \in [StationNames -> KuroshiroOutcomes] :
       IF fetch = "error"
         THEN tPc' = "failed" /\ UNCHANGED tRegions
         ELSE /\ tPc' = "built"
              /\ tRegions' =
                   [n \in TableNames |->
                      IF n \in StationNames /\ tStations[n].known
                        THEN Entry("station", BuiltStationRomaji(n, tStations[n], outcome[n]))
                      ELSE IF \E pair \in ParseTSV(TsvRows) : pair[1] = n
                        THEN Entry("municipality",
                                   (CHOOSE pair \in ParseTSV(TsvRows) : pair[1] = n)[2])
                      ELSE NoEntry]
  /\ UNCHANGED tStations
  /\ UNCHANGED notTable

\* fill-romaji-regions.ts main
FillRomajiRegions ==
  /\ tPc \in {"historical", "built"}
  /\ LET empty == {n \in TableNames : tRegions[n] # NoEntry /\ EmptyRomaji(tRegions[n])}
     IN IF empty = {}
          THEN tPc' = "filled" /\ UNCHANGED tRegions
          ELSE \E fetch \in {"ok", "error"} :
                 IF fetch = "error"
                   THEN tPc' = "failed" /\ UNCHANGED tRegions
                   ELSE /\ tPc' = "filled"
                        /\ tRegions' =
                             [n \in TableNames |->
                                IF n \in empty
                                  THEN Entry(tRegions[n].type,
                                             FilledRomaji(n, tRegions[n], tStations))
                                  ELSE tRegions[n]]
  /\ UNCHANGED tStations
  /\ UNCHANGED notTable

\* The table on disk is the input of the next run of a script.
TableRerun ==
  /\ tPc \in {"built", "filled", "failed"}
  /\ tPc' = "historical"
  /\ UNCHANGED <<tStations, tRegions>>
  /\ UNCHANGED notTable

TableNext == BuildStationMap \/ FillRomajiRegions \/ TableRerun

(***************************************************************************)
(* 7. The Kuroshiro singleton of a server process                          *)
(*      route  src/unnamed/part_007 (POST /api/convert-romaji)             *)
(*      photo  src/api/place-photo.js:97-148 (convertToRomaji)             *)
(* Both modules keep kuroshiroInstance and initPromise at module level.    *)
(* A process serves requests in two slots, so that two can be in flight;   *)
(* requests are numbered in the order the process takes them.              *)
(***************************************************************************)
Slots == {1, 2}
MaxRequests == 4

\* Whatever the request does with the singleton, it first reads it.
ReadBy(slot) ==
  IF kWriter \notin {0, kNum[slot]}
    THEN [kReadFrom EXCEPT ![slot] = @ \cup {kWriter}] ELSE kReadFrom

\* if (kuroshiroInstance && kuroshiroInstance._analyzer) return  (route)
\* if (kuroshiroInstance) return                                   (photo)
AlreadyInitialized ==
  IF kModule = "route" THEN kInstance = "ready" ELSE kInstance # "null"

\* the catch of the caller: the route answers 500, convertToRomaji falls back
OnError == IF kModule = "route" THEN "500" ELSE "fallback"

KuroIdle ==
  /\ kModule = "route" /\ kInstance = "null" /\ kPromise = "null" /\ kWriter = 0
  /\ kCount = 0 /\ kPc = [x \in Slots |-> "idle"] /\ kNum = [x \in Slots |-> 0]
  /\ kReadFrom = [x \in Slots |-> {}] /\ kCalls = [x \in Slots |-> {}]
  /\ kRes = [x \in Slots |-> "none"]
\* A new process of either module.
KuroInit ==
  /\ kModule \in {"route", "photo"} /\ kInstance = "null" /\ kPromise = "null"
  /\ kWriter = 0 /\ kCount = 0 /\ kPc = [x \in Slots |-> "idle"]
  /\ kNum = [x \in Slots |-> 0] /\ kReadFrom = [x \in Slots |-> {}]
  /\ kCalls = [x \in Slots |-> {}] /\ kRes = [x \in Slots |-> "none"]

\* A request arrives and runs up to its first await: validation, then
\* initKuroshiro up to the await of initPromise.
KRequest(slot) ==
  /\ kPc[slot] = "idle" /\ kCount < MaxRequests
  /\ kCount' = kCount + 1
  /\ kNum' = [kNum EXCEPT ![slot] = kCount + 1]
  /\ \E valid \in BOOLEAN :
       IF ~valid /\ kModule = "route"
         \* if (!text || typeof text !== 'string')
         THEN /\ kPc' = [kPc EXCEPT ![slot] = "done"]
              /\ kRes' = [kRes EXCEPT ![slot] = "400"]
              /\ UNCHANGED <<kInstance, kPromise, kWriter, kReadFrom, kCalls>>
         ELSE /\ valid
              /\ kRes' = [kRes EXCEPT ![slot] = "none"]
              /\ kReadFrom' = IF kWriter # 0 THEN [kReadFrom EXCEPT ![slot] = {kWriter}]
                                            ELSE kReadFrom
              /\ IF AlreadyInitialized
                   THEN /\ kPc' = [kPc EXCEPT ![slot] = "afterInit"]
                        /\ UNCHANGED <<kInstance, kPromise, kWriter, kCalls>>
                 ELSE IF kPromise = "pending"
                   THEN /\ kPc' = [kPc EXCEPT ![slot] = "await"]
                        /\ UNCHANGED <<kInstance, kPromise, kWriter, kCalls>>
                 ELSE IF kPromise = "resolved"
                   THEN /\ kPc' = [kPc EXCEPT ![slot] = "afterInit"]
                        /\ UNCHANGED <<kInstance, kPromise, kWriter, kCalls>>
                 ELSE IF kPromise = "rejected"
                   \* return initPromise: the remembered rejection
                   THEN /\ kPc' = [kPc EXCEPT ![slot] = "initFailed"]
                        /\ UNCHANGED <<kInstance, kPromise, kWriter, kCalls>>
                 ELSE /\ kInstance' = "created" /\ kPromise' = "pending"
                      /\ kWriter' = kCount + 1
                      /\ kCalls' = [kCalls EXCEPT ![slot] = {"init"}]
                      /\ kPc' = [kPc EXCEPT ![slot] = "await"]
  /\ UNCHANGED kModule
  /\ UNCHANGED notKuro

\* initPromise = null in the catch of the initialization
ForgetFailure == "null"
\* the catch of the route's initialization leaves initPromise as it is
KeepFailure == "rejected"
AfterFailedInit == IF kModule = "photo" THEN ForgetFailure ELSE KeepFailure

\* kuroshiroInstance.init settles; every request awaiting initPromise resumes.
KInitSettle ==
  /\ kPromise = "pending"
  /\ \E outcome \in {"ok", "error"} :
       /\ kInstance' = IF outcome = "ok" THEN "ready" ELSE "null"
       /\ kPromise' = IF outcome = "ok" THEN "resolved" ELSE AfterFailedInit
       /\ kPc' = [x \in Slots |->
                   IF kPc[x] = "await"
                     THEN (IF outcome = "ok" THEN "afterInit" ELSE "initFailed")
                     ELSE kPc[x]]
  /\ UNCHANGED <<kModule, kWriter, kCount, kNum, kReadFrom, kCalls, kRes>>
  /\ UNCHANGED notKuro

\* After await initKuroshiro(): if (!kuroshiroInstance) throw, else the call of
\* kuroshiroInstance.convert; after a rejection, the caller's catch.
KContinue(slot) ==
  /\ kPc[slot] \in {"afterInit", "initFailed"}
  /\ kReadFrom' = ReadBy(slot)
  /\ IF kPc[slot] = "initFailed" \/ kInstance = "null"
       THEN /\ kPc' = [kPc EXCEPT ![slot] = "done"]
            /\ kRes' = [kRes EXCEPT ![slot] = OnError]
            /\ UNCHANGED kCalls
       ELSE /\ kPc' = [kPc EXCEPT ![slot] = "convert"]
            /\ kCalls' = [kCalls EXCEPT ![slot] = @ \cup {"convert"}]
            /\ UNCHANGED kRes
  /\ UNCHANGED <<kModule, kInstance, kPromise, kWriter, kCount, kNum>>
  /\ UNCHANGED notKuro

\* kuroshiroInstance.convert settles.  The instance this request took may not
\* have been initialized yet (photo) or may have failed since: convert throws.
KConvert(slot) ==
  /\ kPc[slot] = "convert"
  /\ \E outcome \in {"ok", "error"} :
       /\ kInstance # "ready" => outcome = "error"
       /\ kRes' = [kRes EXCEPT ![slot] = IF outcome = "ok" THEN "romaji" ELSE OnError]
  /\ kPc' = [kPc EXCEPT ![slot] = "done"]
  /\ UNCHANGED <<kModule, kInstance, kPromise, kWriter, kCount, kNum, kReadFrom, kCalls>>
  /\ UNCHANGED notKuro

\* The response has gone out.
KRespond(slot) ==
  /\ kPc[slot] = "done"
  /\ kPc' = [kPc EXCEPT ![slot] = "idle"]
  /\ kNum' = [kNum EXCEPT ![slot] = 0]
  /\ kReadFrom' = [kReadFrom EXCEPT ![slot] = {}]
  /\ kCalls' = [kCalls EXCEPT ![slot] = {}]
  /\ kRes' = [kRes EXCEPT ![slot] = "none"]
  /\ UNCHANGED <<kModule, kInstance, kPromise, kWriter, kCount>>
  /\ UNCHANGED notKuro

KRequestAny == \E slot \in Slots : KRequest(slot)
KContinueAny == \E slot \in Slots : KContinue(slot)
KConvertAny == \E slot \in Slots : KConvert(slot)
KRespondAny == \E slot \in Slots : KRespond(slot)
KuroNext == KRequestAny \/ KInitSettle \/ KContinueAny \/ KConvertAny \/ KRespondAny

(***************************************************************************)
(* 8. From a facility to its slug and back                                 *)
(*      src/app/utils/urlHelpers.ts:280-314 (generateFacilitySlugAsync),   *)
(*      :495-519 (saveSlugPlaceIdMapping)                                  *)
(*      src/app/api/slug-lookup/route.ts (GET, POST)                       *)
(*      src/app/services/geminiService.ts:690-793 (resolvePlaceId)         *)
(* Slugs and placeIds are sequences of characters; <<>> is the absent      *)
(* value (null, undefined, a missing key).                                 *)
(***************************************************************************)
FacilityTitles == {<<"[ka]", "[na]">>, <<"[a]">>}
Facilities == [title : FacilityTitles, placeId : PlaceIds]
NoFacility == [title |-> <<>>, placeId |-> <<>>]

\* The slugs generateFacilitySlugAsync gives the facilities
FacilitySlugs ==
  {GenerateFacilitySlugAsync(f.title, f.placeId, o).res.value :
     f \in Facilities, o \in Outcomes("facilityAsync")}
\* `slug:${slug}` and `prefix:${suffix.toLowerCase()}`
RSlugKey(slug) == <<"slug:">> \o slug
RPrefixKey(suffix) == <<"prefix:">> \o ToLowerCase(suffix)
ResolveKeys ==
  {RSlugKey(x) : x \in FacilitySlugs} \cup {RPrefixKey(IdPart(x)) : x \in PlaceIds}
\* await kv.get(key), null for a missing key
RGet(store, key) == IF key \in DOMAIN store THEN store[key] ELSE <<>>

ResolveIdle ==
  /\ rKv = [k \in ResolveKeys |-> <<>>] /\ rPc = "idle" /\ rFac = NoFacility
  /\ rSlug = <<>> /\ rSaved = {} /\ rRes = <<>>
\* An empty store.
ResolveInit == ResolveIdle

\* A page generates the slug of a facility it lists.
RGenerate ==
  /\ rPc = "idle"
  /\ \E f \in Facilities, outcome \in Outcomes("facilityAsync") :
       /\ rFac' = f
       /\ rSlug' = GenerateFacilitySlugAsync(f.title, f.placeId, outcome).res.value
  /\ rPc' = "generated" /\ rRes' = <<>>
  /\ UNCHANGED <<rKv, rSaved>>
  /\ UNCHANGED notResolve

\* POST /api/slug-lookup {slug, placeId, suffix}: the store after the handler
SlugLookupStore(store, slug, placeId, suffix, slugSet, prefixSet) ==
  LET afterSlug == IF slugSet = "ok" THEN [store EXCEPT ![RSlugKey(slug)] = placeId]
                   ELSE store
  IN IF slug = <<>> \/ placeId = <<>> THEN store
     ELSE IF suffix # <<>> /\ prefixSet = "ok"
       THEN [afterSlug EXCEPT ![RPrefixKey(suffix)] = placeId]
     ELSE afterSlug

\* saveSlugPlaceIdMapping(slug, placeId) for the slug just generated.
RSave ==
  /\ rPc = "generated"
  /\ \E storage \in {"ok", "error"}, slugSet \in {"ok", "error"} :
       /\ storage = "error" => slugSet = "ok"
       \* sessionStorage.setItem throws: caught, nothing is sent
       /\ rKv' = IF storage = "error" THEN rKv
                  ELSE SlugLookupStore(rKv, rSlug, rFac.placeId, <<>>, slugSet, "ok")
  /\ rSaved' = rSaved \cup {[facility |-> rFac, slug |-> rSlug]}
  /\ rPc' = "idle" /\ rFac' = NoFacility /\ rSlug' = <<>>
  /\ UNCHANGED rRes
  /\ UNCHANGED notResolve

\* slug.startsWith('ChIJ') || slug.startsWith('chij')
StartsWith(s, word) == Len(s) >= Len(word) /\ SubSeq(s, 1, Len(word)) = word
IsFullPlaceId(slug) ==
  StartsWith(slug, <<"C", "h", "I", "J">>) \/ StartsWith(slug, <<"c", "h", "i", "j">>)
\* slug.match(/-([A-Za-z0-9]{8})$/)
SuffixLength == 8
ExtractPlaceIdSuffix(slug) ==
  LET n == Len(slug)
  IN IF /\ n > SuffixLength /\ slug[n - SuffixLength] = "-"
        /\ \A i \in (n - SuffixLength + 1)..n : slug[i] \in AlphaNum \cup UpperCase
       THEN SubSeq(slug, n - SuffixLength + 1, n)
       ELSE <<>>

\* placeId.replace('places/', '')
IdLess(placeId) == ReplaceFirst(placeId, PlacesPrefix, <<>>)

\* What /api/search-by-name can answer for a name: nothing, or a placeId it found.
SearchByNameAnswers == {<<>>} \cup {PlacesPrefix \o IdLess(p) : p \in PlaceIds}

\* resolvePlaceId(slug); each fetch answers OK or fails.
ResolvePlaceId(store, slug, prefixFetch, slugFetch, search) ==
  IF IsFullPlaceId(slug) THEN PlacesPrefix \o slug
  ELSE LET suffix == ExtractPlaceIdSuffix(slug)
           byPrefix == IF suffix # <<>> /\ prefixFetch = "ok"
                         THEN RGet(store, RPrefixKey(suffix)) ELSE <<>>
           bySlug == IF slugFetch = "ok" THEN RGet(store, RSlugKey(slug)) ELSE <<>>
       IN IF byPrefix # <<>> THEN byPrefix
          ELSE IF bySlug # <<>> THEN bySlug
          ELSE search

\* The detail page of a saved facility resolves the slug that was saved for it.
RResolve ==
  /\ rPc = "idle"
  /\ \E saved \in rSaved, prefixFetch \in {"ok", "error"}, slugFetch \in {"ok", "error"},
        search \in SearchByNameAnswers :
       /\ rFac' = saved.facility /\ rSlug' = saved.slug
       /\ rRes' = ResolvePlaceId(rKv, saved.slug, prefixFetch, slugFetch, search)
  /\ rPc' = "done"
  /\ UNCHANGED <<rKv, rSaved>>
  /\ UNCHANGED notResolve

\* The page has its answer.
RReturn ==
  /\ rPc = "done"
  /\ rPc' = "idle" /\ rFac' = NoFacility /\ rSlug' = <<>> /\ rRes' = <<>>
  /\ UNCHANGED <<rKv, rSaved>>
  /\ UNCHANGED notResolve

ResolveNext == RGenerate \/ RSave \/ RResolve \/ RReturn

ParseNext == StartSection \/ ParseLine \/ EndSection \/ ParseReturn

vars ==
  <<parseVars, slugVars, handlerVars, clearVars, mapVars, tableVars, kuroVars,
    resolveVars>>

InitParse == ParseInit /\ SlugIdle /\ HandlerIdle /\ ClearIdle /\ MapIdle /\ TableIdle
  /\ KuroIdle /\ ResolveIdle
SpecParse == InitParse /\ [][ParseNext]_vars

InitSlug == SlugInit /\ ParseIdle /\ HandlerIdle /\ ClearIdle /\ MapIdle /\ TableIdle
  /\ KuroIdle /\ ResolveIdle
SpecSlug == InitSlug /\ [][SlugNext]_vars

InitHandlers == HandlerInit /\ ParseIdle /\ SlugIdle /\ ClearIdle /\ MapIdle /\ TableIdle
  /\ KuroIdle /\ ResolveIdle
SpecHandlers == InitHandlers /\ [][HandlerNext]_vars

InitClear == ClearInit /\ ParseIdle /\ SlugIdle /\ HandlerIdle /\ MapIdle /\ TableIdle
  /\ KuroIdle /\ ResolveIdle
SpecClear == InitClear /\ [][ClearNext]_vars

InitMap == MapInit /\ ParseIdle /\ SlugIdle /\ HandlerIdle /\ ClearIdle /\ TableIdle
  /\ KuroIdle /\ ResolveIdle
SpecMap == InitMap /\ [][MapNext]_vars

InitTable ==
  TableInit /\ ParseIdle /\ SlugIdle /\ HandlerIdle /\ ClearIdle /\ MapIdle /\ KuroIdle
  /\ ResolveIdle
SpecTable == InitTable /\ [][TableNext]_vars

InitKuro ==
  KuroInit /\ ParseIdle /\ SlugIdle /\ HandlerIdle /\ ClearIdle /\ MapIdle /\ TableIdle
  /\ ResolveIdle
SpecKuro == InitKuro /\ [][KuroNext]_vars

InitResolve ==
  ResolveInit /\ ParseIdle /\ SlugIdle /\ HandlerIdle /\ ClearIdle /\ MapIdle
  /\ TableIdle /\ KuroIdle
SpecResolve == InitResolve /\ [][ResolveNext]_vars

\* Every awaited call of a request in flight settles, and its response goes out.
HandlerFairness ==
  /\ WF_vars(HCacheGet) /\ WF_vars(HGenerate) /\ WF_vars(HUpstream)
  /\ WF_vars(HCacheSet) /\ WF_vars(HRespond)
FairSpecHandlers == InitHandlers /\ [][HandlerNext]_vars /\ HandlerFairness

(***************************************************************************)
(* Claims about the markdown parser (checked under SpecParse).             *)
(***************************************************************************)
\* The records of the current section whose question came from line i.
RecordsOfLine(i) == {k \in DOMAIN qanda : qanda[k].qLine = i}

\* Line i was taken by the question branch and line i+1 is an "A:" line.
QThenA(i) ==
  /\ i + 1 <= Len(secLines)
  /\ secTrace[i] = "Q"
  /\ secLines[i + 1].kind = "A"

OneRecordFor(i) ==
  /\ Cardinality(RecordsOfLine(i)) = 1
  /\ \A k \in RecordsOfLine(i) :
       /\ qanda[k].question = secLines[i].text
       /\ qanda[k].answer = secLines[i + 1].text

\* C9 as stated: within a section, every recognized "Q:" line immediately
\* followed by an "A:" line has produced exactly one Q&A record, holding that
\* question and that answer.
C9_QThenAOneRecord ==
  \A i \in DOMAIN secLines : QThenA(i) => OneRecordFor(i)

\* C9 amended: within a section, every recognized "Q:" line whose question text
\* is neither empty nor the "no information" placeholder, immediately followed by
\* an "A:" line, has produced exactly one Q&A record, holding that question and
\* that answer.
C9_RealQThenAOneRecord ==
  \A i \in DOMAIN secLines :
    QThenA(i) /\ secLines[i].text \notin {"", NoInfo} => OneRecordFor(i)

\* A section has ended in which a real question was directly followed by an
\* answer, and its single record is in the map.
C9_Witness ==
  /\ pPc = "section" /\ Len(detailsMap) > 0
  /\ \E i \in DOMAIN secLines :
       /\ QThenA(i) /\ secLines[i].text = "q1" /\ secLines[i + 1].text = "a1"
       /\ \E m \in DOMAIN detailsMap :
            detailsMap[m].sec = secNo /\ Len(detailsMap[m].qanda) = 1

\* Line i is a "Q:" line and no "A:" line follows it in the section.
DanglingQ(i) ==
  /\ secLines[i].kind = "Q"
  /\ ~ \E j \in (i + 1)..Len(secLines) : secLines[j].kind = "A"

\* C10: a "Q:" line with no following "A:" line produces no Q&A record: no record
\* of its section comes from it, and every record stored for a section comes from
\* a question of that same section.
C10_DanglingQuestionDropped ==
  /\ \A i \in DOMAIN secLines : DanglingQ(i) => RecordsOfLine(i) = {}
  /\ \A k \in DOMAIN qanda : qanda[k].sec = secNo
  /\ \A m \in DOMAIN detailsMap :
       \A k \in DOMAIN detailsMap[m].qanda :
         detailsMap[m].qanda[k].sec = detailsMap[m].sec

\* A second section has been taken after a first one was stored whose last
\* accepted question had no answer, and the map holds no record.
C10_Witness ==
  /\ pPc = "section" /\ secNo = 2 /\ Len(detailsMap) = 2
  /\ \E i \in DOMAIN secLines :
       DanglingQ(i) /\ secTrace[i] = "Q" /\ secLines[i].text = "q1"
  /\ \A m \in DOMAIN detailsMap : detailsMap[m].qanda = <<>>

(***************************************************************************)
(* Slug resolver claims (SpecSlug).                                        *)
(***************************************************************************)
SlugDone == sPc = "done"
RomanizerFailed == sOutcome \in {"nonOk", "exception", "initFailed"}
TierSeq == sRes.tiers
Consulted(t) == \E i \in DOMAIN TierSeq : TierSeq[i] = t
InOrder(rank) ==
  \A i, j \in DOMAIN TierSeq : i < j => rank[TierSeq[i]] < rank[TierSeq[j]]

\* C5 as stated: the tiers are consulted in the order static table, romanizer,
\* kana table, identifier/random fallback, and the romanizer is not called when
\* the static table already yields a long-enough result.
StatedRank ==
  [t \in {"table", "romanizer", "kana", "id", "random"} |->
     CASE t = "table" -> 1 [] t = "romanizer" -> 2 [] t = "kana" -> 3
       [] t = "random" -> 4 [] t = "id" -> 5]
CodeRank ==
  [t \in {"table", "romanizer", "kana", "id", "random"} |->
     CASE t = "romanizer" -> 1 [] t = "table" -> 2 [] t = "kana" -> 3
       [] t = "random" -> 4 [] t = "id" -> 5]
C6_RomanizerFailsOpen ==
  SlugDone /\ RomanizerFailed =>
    /\ ~sRes.threw
    /\ Len(TierSeq) >= 2 /\ TierSeq[1] = "romanizer" /\ TierSeq[2] = "table"
    /\ sFunc = "convert" => sRes.value = ConvertToRomajiFallback(sText).value
C6_Witness ==
  /\ SlugDone /\ sFunc = "convert" /\ sOutcome = "exception"
  /\ sText = <<"[ka]", "[na]">> /\ ~sRes.threw /\ sRes.value = <<"k", "a", "n", "a">>

SameCallAsBefore ==
  /\ SlugDone /\ prevCall # NoCall
  /\ prevCall.func = sFunc /\ prevCall.text = sText /\ prevCall.pid = sPid
  /\ prevCall.outcome = sOutcome

ExpectedSlice(pid) ==
  LET hasPrefix == Len(pid) >= 7 /\ SubSeq(pid, 1, 7) = <<"p", "l", "a", "c", "e", "s", "/">>
      id == IF hasPrefix THEN SubSeq(pid, 8, Len(pid)) ELSE pid
      cut == SubSeq(id, 1, IF Len(id) < 8 THEN Len(id) ELSE 8)
  IN [i \in DOMAIN cut |-> IF cut[i] \in DOMAIN LowerOf THEN LowerOf[cut[i]] ELSE cut[i]]
ShortWithId ==
  /\ SlugDone /\ sFunc \in {"facilityAsync", "facilitySync"}
  /\ sPid # NoPlaceId /\ Len(sBase) < 3

\* C8 as stated: a romanized result shorter than 3 characters, with a facility
\* identifier, is returned with the 8-character lowercase slice appended to it.
C8_ShortResultKeptWithSlice ==
  ShortWithId =>
    \/ sRes.value = sBase \o ExpectedSlice(sPid)
    \/ sRes.value = sBase \o <<"-">> \o ExpectedSlice(sPid)

\* C8, amended: generateFacilitySlug returns the short result, a hyphen and the
\* slice; generateFacilitySlugAsync returns the slice alone.
C8_ShortResultSyncKeptAsyncReplaced ==
  ShortWithId =>
    /\ sFunc = "facilitySync" => sRes.value = sBase \o <<"-">> \o ExpectedSlice(sPid)
    /\ sFunc = "facilityAsync" => sRes.value = ExpectedSlice(sPid)
C8_Witness ==
  /\ ShortWithId /\ sFunc = "facilityAsync" /\ sBase = <<"a">>
  /\ sRes.value = <<"c", "h", "i", "j", "a", "b", "c", "d">>

(***************************************************************************)
(* Request handler claims (SpecHandlers, FairSpecHandlers).                *)
(***************************************************************************)
HandlerDone == hPc = "done"
InGenerationLoop == hHandler = "description" /\ hPc = "generate"
C2_RetryBounded ==
  hHandler = "description" =>
    /\ hRetry <= 2 /\ hCalls <= 3 /\ hCalls <= hRetry + 1
    /\ HandlerDone /\ hCalls > 0 =>
         \/ hRes.status = 500
         \/ hRes.status = 200 /\ hRes.body.kind = "text" /\ Length(hRes.body) > 0

\* C2: one description request makes at most 2 retries (3 generation calls);
\* the retry loop terminates and the handler then answers with a description
\* or with a 500.
C2_BoundedRetryThenAnswer ==
  /\ []C2_RetryBounded
  /\ InGenerationLoop ~> HandlerDone
C2_Witness ==
  /\ HandlerDone /\ hHandler = "description" /\ hRetry = 2 /\ hCalls = 3
  /\ hRes.status = 200 /\ hRes.body = Text(450, 0, 0)

\* C3: a failed store read or write is swallowed by the search, place details
\* and description handlers: no error response carries the store's failure, a
\* failed read is followed by what follows a cache miss, and a failed write
\* still sends the generated result.
C3_StoreErrorsSwallowed ==
  HandlerDone /\ hStoreErr # {} =>
    /\ hRes.message # StoreErrorMessage
    /\ "get" \in hStoreErr =>
         ~hRes.cached /\ (hCalls > 0 \/ hRes.error = "API key not configured")
    /\ "set" \in hStoreErr =>
         /\ hRes.status = 200 /\ ~hRes.cached
         /\ hRes.body = IF hHandler = "description" THEN hDesc ELSE hBody
C3_SwallowedExceptLegacy == hHandler # "descriptionLegacy" => C3_StoreErrorsSwallowed

(***************************************************************************)
(* Cache-clear claims (SpecClear).                                         *)
(***************************************************************************)
ScriptSucceeded == cPc = "done" /\ cRun \in {"rest", "batch", "redis"} /\ cRes = Exit(0)
ReportedFailed(k) == \E i \in DOMAIN cStats.failedKeys : cStats.failedKeys[i] = k

\* C1: after a cache-clear run that completed successfully, every key the run
\* listed for deletion and did not report as failed no longer exists in the store.
C1_NonFailedKeysGone ==
  ScriptSucceeded => \A k \in cListed : ~ReportedFailed(k) => k \notin cStore
C1_GoneExceptRedisDirect == cRun # "redis" => C1_NonFailedKeysGone

PresentsConfiguredKey == cEnv.adminKey # Undef /\ cReqKey = cEnv.adminKey

\* C4: unless the request presents the configured admin key (CACHE_CLEAR_KEY),
\* the clear-cache endpoint answers 403 and makes no scan and no deletion.
C4_AdminKeyGated ==
  cRun = "endpoint" /\ ~PresentsConfiguredKey =>
    /\ cPc = "done" /\ cRes = Http(403)
    /\ cScanCalls = 0 /\ cStats.totalDeleted = 0
C4_GatedExceptEmergencyKey ==
  cReqKey # EmergencyKey /\ ~(cReqKey = Undef /\ cEnv.adminKey = Undef) => C4_AdminKeyGated

(***************************************************************************)
(* Retries of a failed deletion (REST script and Redis-direct script)      *)
(***************************************************************************)
\* the run is inside deleteKeyWithVerify / deleteWithRetry
InDeleteCall ==
  \/ cRun = "rest" /\ cPc = "delete"
  \/ cRun = "redis" /\ cPc \in {"unlink", "unlinkFinal"}
\* the delay slept before retry number n was a fixed base times n
LinearDelay ==
  IF cRetries = 0 THEN cSleep = 0
  ELSE cSleep \in {VerifyRetryDelay * cRetries, ErrorRetryDelay * cRetries}
\* the call in progress has used up its retries; whatever this attempt does,
\* the run moves on to the next key or batch, or ends normally
GivesUpAndContinues ==
  InDeleteCall /\ cRetries = MAX_RETRIES =>
    /\ cRetries' = 0
    /\ cRes' # Exit(1)
    /\ \/ cRun = "rest" /\ cIdx' = cIdx + 1
       \/ cRun = "redis" /\ cPc' \notin {"unlink", "unlinkFinal"}

SummaryMaxFailedKeys == 10
SummaryFailedKeys(stats) == Slice0(stats.failedKeys, SummaryMaxFailedKeys)

\* C12: every key whose deletion the run gave up on is recorded in
\* stats.failedKeys, and once the run has printed its summary, named in it.
C12_FailedKeysReported ==
  /\ cGaveUp \subseteq Range(cStats.failedKeys)
  /\ cPc = "done" /\ cRes = Exit(0) => cGaveUp \subseteq Range(SummaryFailedKeys(cStats))
\* the same, of every run but those of the Redis-direct script
C12_ReportedExceptRedisDirect == cRun # "redis" => C12_FailedKeysReported
\* the REST script has given up on a key and finished
C12_RestReports == cRun = "rest" /\ cPc = "done" /\ cGaveUp # {}

(***************************************************************************)
(* Too-short descriptions                                                  *)
(***************************************************************************)
TooShort == Err(500, "Generated description is too short", "")
AnsweredTooShort == HandlerDone /\ hHandler = "description" /\ hRes = TooShort

\* C13 as stated: the description handler answers 500 "too short" only with the
\* retry bound exhausted, never after a single generation.
C13_TooShortOnlyAfterRetries ==
  AnsweredTooShort => hRetry = GEN_MAX_RETRIES /\ hCalls > 1
\* C13 as the code has it: a too-short text is retried only when the generation
\* contained foreign-language text; then the 500 "too short" comes only with the
\* retry bound exhausted.  A short text without foreign-language text is not
\* retried.
C13_TooShortRetriedOnlyIfForeign ==
  AnsweredTooShort /\ hLastForeign => hRetry = GEN_MAX_RETRIES /\ hCalls = hRetry + 1
\* three foreign-language generations, each too short after sanitizing
C13_Witness ==
  AnsweredTooShort /\ hLastForeign /\ hRetry = GEN_MAX_RETRIES /\ hCalls = 3
\* one generation without foreign-language text, too short
C13_SingleShortGeneration == AnsweredTooShort /\ ~hLastForeign /\ hCalls = 1

(***************************************************************************)
(* Missing configuration                                                   *)
(***************************************************************************)
\* the API key the handler of the request in flight needs is not set
KeyMissing == IF hHandler = "placeDetails" THEN ~env.maps ELSE ~env.gemini
NotConfigured == Err(500, "API key not configured", "")

C14_ServedWithoutStore == HandlerDone /\ ~env.kv /\ hRes.status = 200 /\ hCalls > 0
C14_ServedFromCacheWithoutKey == HandlerDone /\ KeyMissing /\ hRes.status = 200

(***************************************************************************)
(* The slug -> placeId mapping (checked under SpecMap).                    *)
(***************************************************************************)
\* C15: once the store holds a mapping for a slug, a lookup of that slug
\* returns the identifier of that first mapping, whatever was saved later.
C15_WriteOnce ==
  \A slug \in MapSlugs : mFirst[slug] # "" => SlugLookup(mKv, slug) = mFirst[slug]
\* a slug saved a second time with another identifier
C15_Overwritten ==
  \E slug \in MapSlugs : mFirst[slug] = "ChIJ1" /\ SlugLookup(mKv, slug) = "ChIJ2"

(***************************************************************************)
(* The region table (checked under SpecTable).                             *)
(***************************************************************************)
\* ^[a-z0-9-]*$, and not empty
ValidRomaji(romaji) ==
  romaji # <<>> /\ \A i \in 1..Len(romaji) : romaji[i] \in AlphaNum \cup {"-"}
Produced == tPc \in {"built", "filled"}

\* C16: every entry of the table a build or backfill run has written has a
\* romaji that is not empty and matches ^[a-z0-9-]*$.
C16_RomajiValid ==
  Produced => \A n \in TableNames : tRegions[n] # NoEntry => ValidRomaji(tRegions[n].romaji)
\* what holds: the table the build script writes is valid, and no script ever
\* writes a romaji that breaks the pattern
C16_BuiltValidAndPatternKept ==
  /\ tPc = "built" =>
       \A n \in TableNames : tRegions[n] # NoEntry => ValidRomaji(tRegions[n].romaji)
  /\ tPc = "filled" =>
       \A n \in TableNames :
         tRegions[n] # NoEntry /\ tRegions[n].romaji # <<>> => ValidRomaji(tRegions[n].romaji)
\* the backfill has run and left an entry with an empty romaji
C16_StillEmpty ==
  tPc = "filled" /\ \E n \in TableNames : tRegions[n] # NoEntry /\ tRegions[n].romaji = <<>>

(***************************************************************************)
(* Independence of requests (checked under SpecKuro).                      *)
(***************************************************************************)
\* C17: no request reads in-process state that another request wrote.
C17_NoSharedState == \A slot \in Slots : kReadFrom[slot] = {}
\* a request answered 500 that started no call of its own: it arrived after
\* the initialization another request had started had failed
C17_FailedByEarlierRequest ==
  \E slot \in Slots :
    /\ kPc[slot] = "done" /\ kRes[slot] = "500" /\ kCalls[slot] = {}
    /\ kNum[slot] > kWriter /\ kPromise = "rejected"
\* in the photo module a failed initialization is not remembered
C17_PhotoForgetsFailure == kModule = "photo" => kPromise # "rejected"

(***************************************************************************)
(* Empty slugs (checked under SpecSlug).                                   *)
(***************************************************************************)
FacilitySlugReturned ==
  /\ SlugDone /\ sFunc \in {"facilityAsync", "facilitySync", "legacyFacility"}
  /\ ~sRes.threw

\* C18: a facility slug that is returned is never the empty string.
C18_NeverEmpty == FacilitySlugReturned => sRes.value # <<>>
\* the same, of the legacy module only, whose generateSlug emits the random token
C18_LegacyNeverEmpty == FacilitySlugReturned /\ sFunc = "legacyFacility" => sRes.value # <<>>
\* the legacy generateSlug has emitted its random token
C18_LegacyRandomToken ==
  /\ FacilitySlugReturned /\ sFunc = "legacyFacility" /\ sBase = <<>>
  /\ sRes.value = FacilityPrefix \o sRnd
\* a title with nothing to romanize and no identifier: the empty slug
C18_EmptySlug ==
  /\ FacilitySlugReturned /\ sFunc \in {"facilityAsync", "facilitySync"}
  /\ sPid = NoPlaceId /\ sRes.value = <<>>

(***************************************************************************)
(* --limit=N (checked under SpecClear).                                    *)
(***************************************************************************)
\* C19: a run started with --limit=N removes at most N keys.
C19_AtMostLimit == cLimitGiven => Cardinality(cRemoved) <= cLimit
\* the same for N >= 1 and the REST script, which cuts its list to N keys
C19_RestPositiveLimit ==
  cLimitGiven /\ cLimit >= 1 /\ cRun = "rest" => Cardinality(cRemoved) <= cLimit
\* the same for N >= 1 and the Redis-direct script
C19_RedisPositiveLimit ==
  cLimitGiven /\ cLimit >= 1 /\ cRun = "redis" => Cardinality(cRemoved) <= cLimit
\* --limit=0: the whole cache removed
C19_LimitZeroRemovesAll ==
  cLimitGiven /\ cLimit = 0 /\ cPc = "done" /\ Cardinality(cRemoved) = 3

(***************************************************************************)
(* The region slug of an address (checked under SpecSlug).                 *)
(***************************************************************************)
NerimaSlug == <<"n", "e", "r", "i", "m", "a">>
NerimaHyphenKu == <<"n", "e", "r", "i", "m", "a", "-", "k", "u">>
NerimaKuSlug == <<"n", "e", "r", "i", "m", "a", "k", "u">>
NerimaRegionReturned == SlugDone /\ sFunc \in RegionFuncs /\ sText = NerimaAddress
ViaTable(tiers) == \E i \in 1..Len(tiers) : tiers[i] = "table"
ViaRomanizerOnly(tiers) == tiers = <<"romanizer">>

\* C20 as stated: for the address "東京都練馬区谷原2丁目3-8" the region pattern
\* extracts "練馬区" and the slug returned is "nerima" (or "nerima-ku"), resolved
\* via the static table.
C20_NerimaViaTable ==
  NerimaRegionReturned =>
    /\ ExtractRegion(sText) = NerimaKu
    /\ sRes.value \in {NerimaSlug, NerimaHyphenKu}
    /\ ViaTable(sRes.tiers)

\* What the code returns for that address: the pattern extracts "練馬区";
\* generateRegionSlugAsync returns the romanizer's cleaned answer "nerimaku"
\* without consulting the table when the romanizer answers; when it fails, and
\* in the synchronous and the legacy generateRegionSlug, the slug is "nerima",
\* resolved via the static table.
C20_NerimaRomanizerElseTable ==
  NerimaRegionReturned =>
    /\ ExtractRegion(sText) = NerimaKu
    /\ IF sFunc = "regionAsync" /\ sOutcome = "ok"
         THEN sRes.value = NerimaKuSlug /\ ViaRomanizerOnly(sRes.tiers)
         ELSE sRes.value = NerimaSlug /\ ViaTable(sRes.tiers)
\* the romanizer answered: "nerimaku"
C20_AsyncRomanizerNerimaku ==
  /\ NerimaRegionReturned /\ sFunc = "regionAsync" /\ sOutcome = "ok"
  /\ sRes.value = NerimaKuSlug
\* the romanizer failed: the table gives "nerima"
C20_AsyncFallbackNerima ==
  /\ NerimaRegionReturned /\ sFunc = "regionAsync" /\ sOutcome = "nonOk"
  /\ sRes.value = NerimaSlug /\ sRes.tiers = <<"romanizer", "table">>

(***************************************************************************)
(* The "verified" counter of the REST script (checked under SpecClear).    *)
(***************************************************************************)
\* The keys main has counted in verifiedDeleted: those whose deleteKeyWithVerify
\* returned true.
RestCounted ==
  IF cRun = "rest" /\ cPc \in {"delete", "done"}
    THEN {cKeys[i] : i \in 1..Min(cIdx - 1, Len(cKeys))} \ Range(cStats.failedKeys)
    ELSE {}

\* C21: every key counted in verifiedDeleted was confirmed absent by an
\* existence check performed after its delete call.
C21_VerifiedWasChecked ==
  /\ RestCounted \subseteq cChecked
  /\ (cRun = "rest" => cStats.verifiedDeleted <= Cardinality(cChecked))
\* the first key of a run (totalDeleted = 0) is checked
C21_FirstKeyChecked ==
  cRun = "rest" /\ cKeys # <<>> /\ cKeys[1] \in RestCounted => cKeys[1] \in cChecked
\* a run ended with two keys counted as verified and one existence check made
C21_CountedUnchecked ==
  /\ cRun = "rest" /\ cPc = "done" /\ cStats.verifiedDeleted = 2
  /\ Cardinality(cChecked) = 1

(***************************************************************************)
(* Keys reported as failed (checked under SpecClear).                      *)
(***************************************************************************)
LastFailed(stats) == stats.failedKeys[Len(stats.failedKeys)]
RecordsFailure == Len(cStats'.failedKeys) > Len(cStats.failedKeys)

\* C22: a key is recorded as failed only if it still exists in the store when
\* its last deletion attempt ends.
C22_FailedOnlyIfPresent == [][RecordsFailure => LastFailed(cStats') \in cStore']_vars
\* a key the run itself removed is in the list of failed keys, in either script
C22_RemovedReportedFailedRest ==
  /\ cRun = "rest" /\ cPc = "done"
  /\ \E k \in Range(cStats.failedKeys) : k \in cRemoved /\ k \notin cStore
C22_RemovedReportedFailedSpecific ==
  /\ cRun = "specific" /\ cPc = "done"
  /\ \E k \in Range(cStats.failedKeys) : k \in cRemoved /\ k \notin cStore

(***************************************************************************)
(* The end of a key-scan loop (checked under SpecClear).                   *)
(***************************************************************************)
\* A kv.scan call of the loop returns, and the store's next cursor is terminal.
ScanReturnsTerminal ==
  /\ cPc = "scan" /\ cScanCalls' = cScanCalls + 1
  /\ NextSlot(cCursor.value) = 0
\* The loop over the current pattern is left.
ScanLoopLeft == cPc' # "scan" \/ cPattern' # cPattern

\* C23: the key-scan loop ends once the store reports the terminal cursor,
\* returned as the number 0 or as the string "0".
C23_ScanEndsAtTerminalCursor == [][ScanReturnsTerminal => ScanLoopLeft]_vars
\* the same for the clear-cache endpoint alone
C23_EndpointScanEnds ==
  [][ScanReturnsTerminal /\ cRun = "endpoint" => ScanLoopLeft]_vars
\* the same for a client that returns cursors as numbers
C23_NumberCursorScanEnds ==
  [][ScanReturnsTerminal /\ cEnv.cursorType = "number" => ScanLoopLeft]_vars
\* a script still scanning after the terminal cursor "0" came back a second time
C23_ScriptScansOn ==
  /\ cRun \in {"rest", "batch"} /\ cPc = "scan" /\ cEnv.cursorType = "string"
  /\ cCursor.value = 0 /\ cScanCalls >= 2 * ((Len(KeySpace) + ScanStep - 1) \div ScanStep)

(***************************************************************************)
(* What the description handler writes (checked under SpecHandlers).       *)
(***************************************************************************)
DescriptionKeys == {k \in StoreKeys : k[1] = "description:"}
Attempted(op) == \E o \in hOps : o[1] = op
PassedFinalCheck(t) == t = CleanUp(t) /\ Length(t) >= FinalMinLength
\* A step of a description request that makes a SET call or changes an entry.
DescriptionWrites ==
  /\ hHandler = "description"
  /\ \/ hOps' \ hOps # {} /\ \E o \in hOps' \ hOps : o[1] = "set"
     \/ \E k \in DescriptionKeys : kv'[k] # kv[k]
WritesCheckedText ==
  /\ PassedFinalCheck(hDesc)
  /\ \A k \in StoreKeys :
       kv'[k] # kv[k] => k = CacheKey("description", hReq) /\ kv'[k] = hDesc
  /\ hPc' = "done" /\ hRes'.status = 200

\* C24: the description handler writes description:{placeId} only for a text
\* that passed the final length check (at least 300 characters after clean-up),
\* and a request that ends in a 500 has made no write.
C24_WriteOnlyAfterFinalCheck ==
  /\ [](hHandler = "description" /\ hRes.status = 500 => ~Attempted("set"))
  /\ [][DescriptionWrites => WritesCheckedText]_vars
C24_Witness ==
  /\ hHandler = "description" /\ hPc = "done" /\ hRes.status = 200 /\ ~hRes.cached
  /\ Attempted("set") /\ kv[CacheKey("description", hReq)] = hDesc
  /\ Length(hDesc) >= FinalMinLength
\* a text that is too short after clean-up: 500 and nothing written
C24_TooShortNotWritten ==
  /\ hHandler = "description" /\ hPc = "done" /\ hRes.status = 500
  /\ hRes.error = "Generated description is too short" /\ hCalls > 0
  /\ kv[CacheKey("description", hReq)] = NoValue

(***************************************************************************)
(* The description cache across requests (checked under SpecHandlers).     *)
(***************************************************************************)
\* The facility a request names: its placeId without the "places/" prefix.
Facility(req) ==
  IF req.placeId # <<>> /\ req.placeId[1] = "places/" THEN Tail(req.placeId)
  ELSE req.placeId
FacilityKey(req) == <<"description:">> \o Facility(req)
\* The cache lookup of a description request for a facility whose description
\* is stored.
LookupOfStored ==
  /\ hHandler = "description" /\ hPc = "cacheGet"
  /\ kv[FacilityKey(hReq)] # NoValue
  /\ hPc' # hPc
ServedFromCache ==
  /\ hPc' = "done" /\ hRes' = Ok(kv[FacilityKey(hReq)], TRUE, NoDebug)
  /\ hCalls' = 0 /\ kv' = kv

\* C25 as stated: once a description is stored, every later request for the
\* facility, with or without the "places/" prefix, returns it with cached: true
\* and makes no generation call.
C25_StoredAlwaysServed == [][LookupOfStored => ServedFromCache]_vars

\* C25, amended: the same for every later request whose cache read succeeds; a
\* request whose read fails is handled as a miss.
C25_StoredServedWhenReadSucceeds ==
  [][LookupOfStored /\ "get" \notin hStoreErr' => ServedFromCache]_vars
C25_Witness ==
  /\ hHandler = "description" /\ hPc = "done" /\ hReq.placeId = <<"places/", "ChIJ1">>
  /\ hCalls = 0 /\ hRes = Ok(kv[<<"description:", "ChIJ1">>], TRUE, NoDebug)
\* the read failed: the stored description is generated again
C25_RegeneratedAfterFailedRead ==
  /\ hHandler = "description" /\ hPc = "done" /\ "get" \in hStoreErr
  /\ <<"set", FacilityKey(hReq)>> \notin hOps /\ kv[FacilityKey(hReq)] # NoValue
  /\ hCalls > 0 /\ ~hRes.cached

(***************************************************************************)
(* Searches that carry a position (checked under SpecHandlers).            *)
(***************************************************************************)
PositionSearch == hHandler = "search" /\ hReq.position
OnSearchCache(o) == o[2] # <<>> /\ o[2][1] = "search:"

\* C26: the search handler reads and writes the search cache only for requests
\* without a position; a request that carries a position is answered from the
\* upstream API and leaves every search:{normalizedQuery} entry unchanged.
C26_PositionSearchBypassesCache ==
  /\ [](\A o \in hOps : OnSearchCache(o) => hHandler = "search" /\ ~hReq.position)
  /\ [](PositionSearch =>
          /\ hOps = {} /\ ~hRes.cached
          /\ (hRes.status = 200 => hCalls = 1 /\ hRes.body = hBody))
  /\ [][PositionSearch /\ hPc' # hPc => kv' = kv]_vars
C26_Witness ==
  /\ PositionSearch /\ hPc = "done" /\ hRes.status = 200 /\ hCalls = 1
  /\ hRes.body.count > 0
  /\ kv[GenerateCacheKey(hReq.query)] # NoValue /\ hOps = {}
\* the same query without a position is read from and written to the cache
C26_PlainSearchCached ==
  /\ hHandler = "search" /\ ~hReq.position /\ hPc = "done"
  /\ hOps = {<<"get", GenerateCacheKey(hReq.query)>>,
             <<"set", GenerateCacheKey(hReq.query)>>}


(***************************************************************************)
(* C27. A facility's slug, generated by generateFacilitySlugAsync and      *)
(* saved with saveSlugPlaceIdMapping, is resolved by resolvePlaceId to     *)
(* that facility's placeId: not to null, not to another placeId.           *)
(***************************************************************************)
Resolved == rPc = "done"
SameFacilityId(p, q) == p # <<>> /\ IdLess(p) = IdLess(q)
\* C27: resolving a saved facility's slug gives that facility's placeId
C27_ResolvesSavedFacility == Resolved => SameFacilityId(rRes, rFac.placeId)

\* the cases where it does: the slug carries a romanized title, the store holds this
\* facility's mapping under it, and the lookup answers
C27_ResolvesStoredTitleSlug ==
  (/\ Resolved /\ ~IsFullPlaceId(rSlug)
   /\ RGet(rKv, RSlugKey(rSlug)) = rFac.placeId
   /\ rRes # RGet(rKv, RSlugKey(rSlug)))
    => rRes \in SearchByNameAnswers
\* a title romanized to fewer than 3 characters: the slug is the lowercased first 8
\* characters of the id, taken for a placeId and returned behind "places/"
C27_ShortTitleTruncatedId ==
  /\ Resolved /\ rFac.title = <<"[a]">> /\ rSlug = PlaceIdSuffix(rFac.placeId)
  /\ rRes = PlacesPrefix \o rSlug /\ ~SameFacilityId(rRes, rFac.placeId)
\* two facilities of one title whose ids share 8 characters: the later save wins
C27_OtherFacilitysId ==
  /\ Resolved /\ rRes # <<>> /\ ~IsFullPlaceId(rSlug)
  /\ rRes = RGet(rKv, RSlugKey(rSlug)) /\ ~SameFacilityId(rRes, rFac.placeId)
\* the save failed silently and nothing is found
C27_NullAfterSilentSaveFailure ==
  Resolved /\ rRes = <<>> /\ RGet(rKv, RSlugKey(rSlug)) = <<>>


(***************************************************************************)
(* C28. Kuroshiro is initialized at most once per process: a conversion    *)
(* request arriving while an initialization is in progress waits for that  *)
(* initialization and starts none of its own.                              *)
(***************************************************************************)
Arrives(slot) == kPc[slot] = "idle" /\ kPc'[slot] \notin {"idle", "done"}
StartsInit(slot) == "init" \in kCalls'[slot] /\ "init" \notin kCalls[slot]
InitInProgress == kPromise = "pending"
\* C28: no initialization is started during or after another one that has not
\* failed, and a request arriving during one awaits it
C28_InitOnceAndAwaited ==
  [][\A slot \in Slots :
       Arrives(slot) =>
         /\ StartsInit(slot) => kPromise \notin {"pending", "resolved"}
         /\ InitInProgress => kPc'[slot] = "await"]_vars

\* the first half holds in both modules
C28_NoSecondInit ==
  [][\A slot \in Slots :
       Arrives(slot) /\ StartsInit(slot) => kPromise \notin {"pending", "resolved"}]_vars
\* the route's requests wait
C28_RouteAwaits ==
  [][\A slot \in Slots :
       Arrives(slot) /\ InitInProgress /\ kModule = "route" => kPc'[slot] = "await"]_vars
\* place-photo: a request that arrived during the initialization is past
\* initKuroshiro, calling convert, while the initialization is still in progress
C28_PhotoConvertsDuringInit ==
  /\ kModule = "photo" /\ InitInProgress
  /\ \E slot \in Slots : kPc[slot] = "convert" /\ "init" \notin kCalls[slot]
\* and the route's request in the same situation is waiting
C28_RouteWaitingDuringInit ==
  /\ kModule = "route" /\ InitInProgress
  /\ \E slot \in Slots : kPc[slot] = "await" /\ "init" \notin kCalls[slot]


(***************************************************************************)
(* C29. After a failed initialization of Kuroshiro a later conversion      *)
(* request attempts the initialization again: one failure does not fail    *)
(* every later request of the process.                                     *)
(***************************************************************************)
\* an initialization was started and failed, and none is in progress
InitHasFailed == kWriter # 0 /\ kInstance = "null" /\ ~InitInProgress
\* C29: a request arriving after a failed initialization starts a new one
C29_RetriesAfterFailure ==
  [][\A slot \in Slots : Arrives(slot) /\ InitHasFailed => StartsInit(slot)]_vars

\* place-photo does
C29_PhotoRetries ==
  [][\A slot \in Slots :
       Arrives(slot) /\ InitHasFailed /\ kModule = "photo" => StartsInit(slot)]_vars
\* the route keeps the rejected promise for the life of the process
C29_RouteStaysFailed ==
  [][kModule = "route" /\ kPromise = "rejected"
       => kPromise' = "rejected" /\ kInstance' = "null"]_vars
\* the route: the last request the process takes, long after the failure, is
\* answered 500 without any initialization or conversion
C29_RouteLastRequestFails ==
  /\ kModule = "route" /\ kCount = MaxRequests
  /\ \E slot \in Slots :
       /\ kNum[slot] = MaxRequests /\ kWriter = 1 /\ kRes[slot] = "500"
       /\ kCalls[slot] = {}
\* place-photo: a request after the failure has initialized and converted
C29_PhotoRecovered ==
  /\ kModule = "photo" /\ kWriter > 1
  /\ \E slot \in Slots :
       kNum[slot] = kWriter /\ kRes[slot] = "romaji" /\ kCalls[slot] = {"init", "convert"}


(***************************************************************************)
(* C30. generateFacilitySlugAsync with a placeId gives slugs unique per    *)
(* facility: two facilities with different placeIds never get one slug.    *)
(***************************************************************************)
\* two completed calls of generateFacilitySlugAsync for facilities of different ids
TwoFacilities ==
  /\ SlugDone /\ prevCall # NoCall
  /\ sFunc = "facilityAsync" /\ prevCall.func = "facilityAsync"
  /\ sPid # NoPlaceId /\ prevCall.pid # NoPlaceId
  /\ IdLess(sPid) # IdLess(prevCall.pid)
\* C30: their slugs differ
C30_UniquePerFacility == TwoFacilities => sRes.value # prevCall.res.value

\* they do when the lowercased first 8 characters of the ids differ, whatever the
\* romanizer answered
C30_UniqueWhenSlicesDiffer ==
  TwoFacilities /\ PlaceIdSuffix(sPid) # PlaceIdSuffix(prevCall.pid)
    => sRes.value # prevCall.res.value
\* which is a case that happens
C30_SlicesDifferSlugsDiffer ==
  /\ TwoFacilities /\ sText = prevCall.text
  /\ PlaceIdSuffix(sPid) # PlaceIdSuffix(prevCall.pid)
  /\ sRes.value # prevCall.res.value
\* one title, ids that share their first 8 characters: one slug
C30_SharedSliceSameSlug ==
  /\ TwoFacilities /\ sText = prevCall.text /\ sOutcome = "ok" /\ prevCall.outcome = "ok"
  /\ PlaceIdSuffix(sPid) = PlaceIdSuffix(prevCall.pid)
  /\ sRes.value = prevCall.res.value

====
